---- MODULE Spec2Model ----
(***************************************************************************)
(* Grain: the weekly accounting engine (AddLog, UndoLastAction,            *)
(* CalculateCurrentWeekStats, RecalculateWeeklyStats,                      *)
(* RecalculateOverallStats, ResetWeekData), the calendar arithmetic it     *)
(* rests on, and the goal command.                                         *)
(*                                                                         *)
(* Representation.                                                         *)
(*   time.Time      [inst |-> hours since 1970-01-01T00:00Z,               *)
(*                   off  |-> the zone's offset east of UTC, in hours]     *)
(*   "YYYY-MM-DD"   the number YYYYMMDD: the order of these numbers is the *)
(*                  byte order of the strings for four-digit years         *)
(*   "YYYY-WW"      the number YYYYWW (fmt.Sprintf "%d-%02d")              *)
(*   map[string]int a function whose DOMAIN is the set of keys present     *)
(*                                                                         *)
(* Values that a Go function holds in a local variable and uses several    *)
(* times are passed on as operator parameters.                             *)
(***************************************************************************)
EXTENDS Integers, Sequences, FiniteSets, TLC

VARIABLES Logs, WeeklySurplus, Streak, BestSurplus, UndoStack, Config,
          now, last, probe

vars == <<Logs, WeeklySurplus, Streak, BestSurplus, UndoStack, Config,
          now, last, probe>>

(***************************************************************************)
(* Package time of the standard library, as far as the program uses it.    *)
(***************************************************************************)
Sunday == 0
Monday == 1
Thursday == 4

HoursPerDay == 24

\* Days since 1970-01-01 of the proleptic Gregorian date y-m-d, counted in
\* years that begin on March 1; d may lie outside the month, as in
\* time.Date, which normalises its arguments.
DaysOfMarchYear(yy, mp, d) ==
    (yy \div 400) * 146097 + (yy % 400) * 365 + (yy % 400) \div 4
    - (yy % 400) \div 100 + (153 * mp + 2) \div 5 + d - 1 - 719468

DaysFromCivil(y, m, d) ==
    DaysOfMarchYear(IF m <= 2 THEN y - 1 ELSE y, IF m > 2 THEN m - 3 ELSE m + 9, d)

\* The date of a day number, from its 400-year era, its year of the era
\* (yoe), its day of the March year (doy) and that year's month (mp).
CivilOfMonth(y, doy, mp) ==
    [year  |-> y + (IF mp >= 10 THEN 1 ELSE 0),
     month |-> IF mp < 10 THEN mp + 3 ELSE mp - 9,
     day   |-> doy - (153 * mp + 2) \div 5 + 1]

CivilOfYear(era, yoe, doy) ==
    CivilOfMonth(yoe + era * 400, doy, (5 * doy + 2) \div 153)

YearOfEra(doe) ==
    (doe - doe \div 1460 + doe \div 36524 - doe \div 146096) \div 365

CivilOfEra(era, doe, yoe) ==
    CivilOfYear(era, yoe, doe - (365 * yoe + yoe \div 4 - yoe \div 100))

\* t.Date(): [year, month, day] of a day number.
CivilFromDays(z) ==
    CivilOfEra((z + 719468) \div 146097, (z + 719468) % 146097,
               YearOfEra((z + 719468) % 146097))

\* The day number of t's date on the wall clock of t's zone.
LocalDay(t) == (t.inst + t.off) \div HoursPerDay

\* The hour of t on the wall clock of t's zone.
LocalHour(t) == (t.inst + t.off) % HoursPerDay

\* t.Weekday(): Sunday = 0 .. Saturday = 6; 1970-01-01 was a Thursday.
Weekday(t) == (LocalDay(t) + Thursday) % 7

\* time.Date(year, month, day, hour, 0, 0, 0, loc) in the zone off.
Date(y, m, d, hour, off) ==
    [inst |-> DaysFromCivil(y, m, d) * HoursPerDay + hour - off, off |-> off]

\* t.AddDate(0, 0, days): the same wall clock, days later.
AddDays(t, days) == [inst |-> t.inst + days * HoursPerDay, off |-> t.off]

\* The wall clock hour of t on the date c, years later.
DateYearsOn(c, years, hour, off) ==
    Date(c.year + years, c.month, c.day, hour, off)

\* t.AddDate(years, 0, 0)
AddYears(t, years) ==
    DateYearsOn(CivilFromDays(LocalDay(t)), years, LocalHour(t), t.off)

\* time.Date(t.Year(), t.Month(), t.Day(), 0, 0, 0, 0, t.Location())
Midnight(t) == [inst |-> LocalDay(t) * HoursPerDay - t.off, off |-> t.off]

Equal(t, u)  == t.inst = u.inst
Before(t, u) == t.inst < u.inst
After(t, u)  == t.inst > u.inst

\* The day number of the Thursday of t's week (weeks start on Monday).
ThursdayOf(t) ==
    LocalDay(t) + (IF Thursday - Weekday(t) = 4 THEN -3 ELSE Thursday - Weekday(t))

\* The ISO week of a Thursday in the calendar year year.
WeekOfThursday(thu, year) ==
    [year |-> year, week |-> (thu - DaysFromCivil(year, 1, 1)) \div 7 + 1]

\* t.ISOWeek(): the year and the week of the Thursday of t's week.
ISOWeek(t) == WeekOfThursday(ThursdayOf(t), CivilFromDays(ThursdayOf(t)).year)

\* The text of a date as "YYYY-MM-DD".
DateString(c) == c.year * 10000 + c.month * 100 + c.day

\* t.Format(data.DateFormat): "YYYY-MM-DD" of t's date in t's zone.
FormatDate(t) == DateString(CivilFromDays(LocalDay(t)))

\* time.Parse(data.DateFormat, s): midnight UTC of the date written in s.
ParseDate(s) == Date(s \div 10000, (s \div 100) % 100, s % 100, 0, 0)

(***************************************************************************)
(* internal/timeutil/week.go                                               *)
(***************************************************************************)
\* adjWeekday left at Go's Weekday: Sunday = 0 .. Saturday = 6.
AdjWeekdaySundayFirst(weekday) == weekday

\* adjWeekday: Monday = 0 .. Sunday = 6.
AdjWeekday(weekday) == IF weekday - 1 < 0 THEN 6 ELSE weekday - 1

GetWeekBounds(t) ==
    [start |-> Midnight(AddDays(t, -AdjWeekday(Weekday(t)))),
     end   |-> Midnight(AddDays(AddDays(t, -AdjWeekday(Weekday(t))), 6))]

\* fmt.Sprintf("%d-%02d", year, week)
WeekString(w) == w.year * 100 + w.week

GetWeekID(t) == WeekString(ISOWeek(t))

\* The index in logs of the Day whose Date is dateStr; 0 when there is none.
GetDayLogs(logs, dateStr) ==
    IF \E i \in 1..Len(logs) : logs[i].Date = dateStr
    THEN CHOOSE i \in 1..Len(logs) :
            /\ logs[i].Date = dateStr
            /\ \A j \in 1..(i - 1) : logs[j].Date # dateStr
    ELSE 0

\* insertIndex with a loop that never stops early: the Day goes last.
InsertIndexLast(logs, dateStr) == Len(logs)

\* insertIndex: the loop stops at the first Day dated after dateStr.
InsertIndex(logs, dateStr) ==
    IF \A i \in 1..Len(logs) : ~(logs[i].Date > dateStr)
    THEN Len(logs)
    ELSE (CHOOSE i \in 1..Len(logs) :
            /\ logs[i].Date > dateStr
            /\ \A j \in 1..(i - 1) : ~(logs[j].Date > dateStr)) - 1

\* logs with an empty Day for dateStr put in at insertIndex.
InsertDay(logs, dateStr, insertIndex) ==
    [Logs |-> SubSeq(logs, 1, insertIndex)
              \o <<[Date |-> dateStr, Logs |-> <<>>]>>
              \o SubSeq(logs, insertIndex + 1, Len(logs)),
     idx  |-> insertIndex + 1]

\* The store with a Day for dateStr in it, and that Day's index.
GetOrCreateDay(logs, dateStr, found) ==
    IF found # 0 THEN [Logs |-> logs, idx |-> found]
    ELSE InsertDay(logs, dateStr, InsertIndex(logs, dateStr))

\* GetOrCreateDayLogs taking the date in UTC, whatever the zone of date.
GetOrCreateDayLogsUTC(logs, date) ==
    GetOrCreateDay(logs, FormatDate([date EXCEPT !.off = 0]),
                   GetDayLogs(logs, FormatDate([date EXCEPT !.off = 0])))

GetOrCreateDayLogs(logs, date) ==
    GetOrCreateDay(logs, FormatDate(date), GetDayLogs(logs, FormatDate(date)))

(***************************************************************************)
(* internal/data: the types and the fresh state of LoadState.              *)
(***************************************************************************)
LogTypeStudy == "study"
LogTypeBreak == "break"

EmptyMap == [k \in {} |-> 0]

\* state.WeeklySurplus[weekID]: the zero value when the key is absent.
MapGet(m, k) == IF k \in DOMAIN m THEN m[k] ELSE 0

\* state.WeeklySurplus[weekID] = v
MapPut(m, k, v) == [x \in (DOMAIN m) \cup {k} |-> IF x = k THEN v ELSE m[x]]

\* The map emptied, whatever the key.
MapClear(m, k) == EmptyMap

\* delete(state.WeeklySurplus, weekID)
MapDelete(m, k) == [x \in (DOMAIN m) \ {k} |-> m[x]]

\* LoadState when there is no data file.
FreshState(cfg) ==
    [Logs |-> <<>>, WeeklySurplus |-> EmptyMap, Streak |-> 0,
     BestSurplus |-> 0, UndoStack |-> <<>>, Config |-> cfg]

(***************************************************************************)
(* internal/logic                                                          *)
(***************************************************************************)
RECURSIVE SumAmounts(_, _)
\* The sum of the amounts of the logs of one type in a Day's logs.
SumAmounts(dayLogs, logType) ==
    IF dayLogs = <<>> THEN 0
    ELSE (IF Head(dayLogs).Type = logType THEN Head(dayLogs).Amount ELSE 0)
         + SumAmounts(Tail(dayLogs), logType)

\* "the day falls within the week (inclusive)": instants are compared.
InWeek(dayDate, startOfWeek, endOfWeek) ==
    /\ (Equal(dayDate, startOfWeek) \/ After(dayDate, startOfWeek))
    /\ (Equal(dayDate, endOfWeek) \/ Before(dayDate, endOfWeek))

\* The sums so far with one Day of state.Logs taken into account.
AddDayToSum(sum, day, startOfWeek, endOfWeek) ==
    IF /\ InWeek(ParseDate(day.Date), startOfWeek, endOfWeek)
       /\ Weekday(ParseDate(day.Date)) # Sunday
    THEN [studyCredits |-> sum.studyCredits + SumAmounts(day.Logs, LogTypeStudy),
          breaksUsed   |-> sum.breaksUsed + SumAmounts(day.Logs, LogTypeBreak),
          foundLogs    |-> TRUE]
    ELSE sum

\* The Days of state.Logs the loop does not pass over: those within the
\* bounds, in the order of the store.
DaysWithin(logs, bounds) ==
    SelectSeq(logs, LAMBDA day :
        InWeek(ParseDate(day.Date), bounds.start, bounds.end))

RECURSIVE SumWeekFrom(_, _, _, _, _)
SumWeekFrom(logs, i, startOfWeek, endOfWeek, sum) ==
    IF i > Len(logs) THEN sum
    ELSE SumWeekFrom(logs, i + 1, startOfWeek, endOfWeek,
                     AddDayToSum(sum, logs[i], startOfWeek, endOfWeek))

\* The loop over state.Logs shared by the three statistics: the study and
\* break credits of the non-Sunday Days within the bounds, and whether there
\* was such a Day.
SumWeek(logs, bounds) ==
    SumWeekFrom(DaysWithin(logs, bounds), 1, bounds.start, bounds.end,
                [studyCredits |-> 0, breaksUsed |-> 0, foundLogs |-> FALSE])

RECURSIVE FirstMonday(_)
\* for t.Weekday() != time.Monday { t = t.AddDate(0, 0, 1) }
FirstMonday(t) ==
    IF Weekday(t) = Monday THEN t ELSE FirstMonday(AddDays(t, 1))

\* "Adjust if the first day calculation was off due to year boundary"
AdjustWeek(t, year, weekNum) ==
    IF ISOWeek(t).year # year \/ ISOWeek(t).week # weekNum
    THEN AddDays(t, (weekNum - ISOWeek(t).week) * 7)
    ELSE t

\* The date RecalculateWeeklyStats resolves the week weekNum of year to.
ResolveWeek(year, weekNum) ==
    AdjustWeek(AddDays(FirstMonday(Date(year, 1, 1, 0, 0)), (weekNum - 1) * 7),
               year, weekNum)

\* fmt.Sscanf(weekID, "%d-%d", &year, &weekNum), then the resolution.
WeekIDToTime(weekID) == ResolveWeek(weekID \div 100, weekID % 100)

\* The rule of RecalculateWeeklyStats counting the credit that reaches the
\* goal as the first credit of surplus.
RecalculatedSurplusFromGoal(studyCredits, weeklyGoal) ==
    IF studyCredits >= weeklyGoal THEN (studyCredits - weeklyGoal + 1) * 2 ELSE 0

\* The surplus rule of RecalculateWeeklyStats.
RecalculatedSurplus(studyCredits, weeklyGoal) ==
    IF studyCredits >= weeklyGoal THEN (studyCredits - weeklyGoal) * 2 ELSE 0

\* state.WeeklySurplus[weekID] = surplus, BestSurplus left as it is.
StoreSurplusOnly(state, weekID, surplus) ==
    [state EXCEPT !.WeeklySurplus = MapPut(@, weekID, surplus)]

\* state.WeeklySurplus[weekID] = surplus, and BestSurplus raised to it.
StoreSurplus(state, weekID, surplus) ==
    [state EXCEPT
        !.WeeklySurplus = MapPut(@, weekID, surplus),
        !.BestSurplus   = IF surplus > @ THEN surplus ELSE @]

\* RecalculateWeeklyStats taking the week's surplus for BestSurplus, lower
\* or not.
RecalculateSetsBest(state, weekID) ==
    [StoreSurplus(state, weekID,
        RecalculatedSurplus(
            SumWeek(state.Logs, GetWeekBounds(WeekIDToTime(weekID))).studyCredits,
            state.Config.WeeklyGoal))
     EXCEPT !.BestSurplus =
        RecalculatedSurplus(
            SumWeek(state.Logs, GetWeekBounds(WeekIDToTime(weekID))).studyCredits,
            state.Config.WeeklyGoal)]

RecalculateWeeklyStats(state, weekID) ==
    StoreSurplus(state, weekID,
        RecalculatedSurplus(
            SumWeek(state.Logs, GetWeekBounds(WeekIDToTime(weekID))).studyCredits,
            state.Config.WeeklyGoal))

RECURSIVE StreakLoop(_, _, _, _)
RECURSIVE StreakStep(_, _, _, _, _)
\* One pass of the loop of RecalculateOverallStats, week being the sums of
\* the week of checkTime.
StreakStep(state, tnow, checkTime, currentStreak, week) ==
    IF ~week.foundLogs \/ week.studyCredits < state.Config.WeeklyGoal
    THEN currentStreak
    ELSE IF /\ Len(state.Logs) > 0
            /\ Before(AddDays(checkTime, -7), AddYears(tnow, -5))
    THEN currentStreak + 1
    ELSE IF Len(state.Logs) = 0
    THEN currentStreak + 1
    ELSE StreakLoop(state, tnow, AddDays(checkTime, -7), currentStreak + 1)

\* The loop of RecalculateOverallStats, from checkTime backwards.
StreakLoop(state, tnow, checkTime, currentStreak) ==
    IF GetWeekID(checkTime) = GetWeekID(tnow)
    THEN currentStreak
    ELSE StreakStep(state, tnow, checkTime, currentStreak,
                    SumWeek(state.Logs, GetWeekBounds(checkTime)))

RecalculateOverallStats(state, tnow) ==
    [state EXCEPT !.Streak = StreakLoop(state, tnow, AddDays(tnow, -7), 0)]

\* Where sort.SliceStable puts x among logs already in order: before the
\* first log whose timestamp is after x's.
InsertAt(sorted, x, at) ==
    SubSeq(sorted, 1, at - 1) \o <<x>> \o SubSeq(sorted, at, Len(sorted))

InsertByTimestamp(sorted, x) ==
    IF \A i \in 1..Len(sorted) : ~Before(x.Timestamp, sorted[i].Timestamp)
    THEN Append(sorted, x)
    ELSE InsertAt(sorted, x,
            CHOOSE i \in 1..Len(sorted) :
                /\ Before(x.Timestamp, sorted[i].Timestamp)
                /\ \A j \in 1..(i - 1) : ~Before(x.Timestamp, sorted[j].Timestamp))

RECURSIVE SortByTimestamp(_)
\* sort.SliceStable(day.Logs, Timestamp.Before): logs with equal timestamps
\* keep their order.
SortByTimestamp(dayLogs) ==
    IF dayLogs = <<>> THEN <<>>
    ELSE InsertByTimestamp(SortByTimestamp(SubSeq(dayLogs, 1, Len(dayLogs) - 1)),
                           dayLogs[Len(dayLogs)])

\* The result of a call: the state it leaves, its error ("" for nil) and
\* what it returns.
Result(state, err, ret) == [state |-> state, err |-> err, ret |-> ret]

ErrSunday      == "logging is disabled on Sundays"
ErrAmount      == "log amount must be positive"
ErrNoUndo      == "no actions to undo"
ErrNoDay       == "internal error: cannot find day log"
ErrNoEntry     == "internal error: cannot find log entry to undo"
ErrInvalidGoal == "invalid goal amount"

\* AddLog refreshing the streak as well, the clock at the log's timestamp.
AddLogThenStreak(state, got, newLog) ==
    Result(
        RecalculateOverallStats(
            RecalculateWeeklyStats(
                [state EXCEPT
                    !.Logs = [got.Logs EXCEPT
                                ![got.idx].Logs = SortByTimestamp(Append(@, newLog))],
                    !.UndoStack = Append(@, [Log     |-> newLog,
                                             DayDate |-> got.Logs[got.idx].Date])],
                GetWeekID(newLog.Timestamp)),
            newLog.Timestamp),
        "", <<>>)

\* AddLog from the Day got on: the log appended and the Day sorted, the undo
\* item pushed, the week of the timestamp recalculated.
AddLogToDay(state, got, newLog) ==
    Result(
        RecalculateWeeklyStats(
            [state EXCEPT
                !.Logs = [got.Logs EXCEPT
                            ![got.idx].Logs = SortByTimestamp(Append(@, newLog))],
                !.UndoStack = Append(@, [Log     |-> newLog,
                                         DayDate |-> got.Logs[got.idx].Date])],
            GetWeekID(newLog.Timestamp)),
        "", <<>>)

\* AddLog fetching the Day before it looks at the weekday.
AddLogDayFirst(state, logType, amount, timestamp) ==
    IF Weekday(timestamp) = Sunday
    THEN Result([state EXCEPT
                    !.Logs = GetOrCreateDayLogs(state.Logs, timestamp).Logs],
                ErrSunday, <<>>)
    ELSE IF amount <= 0 THEN Result(state, ErrAmount, <<>>)
    ELSE AddLogToDay(state, GetOrCreateDayLogs(state.Logs, timestamp),
                     [Type |-> logType, Timestamp |-> timestamp, Amount |-> amount])

\* AddLog turning away negative amounts only.
AddLogZeroAllowed(state, logType, amount, timestamp) ==
    IF Weekday(timestamp) = Sunday THEN Result(state, ErrSunday, <<>>)
    ELSE IF amount < 0 THEN Result(state, ErrAmount, <<>>)
    ELSE AddLogToDay(state, GetOrCreateDayLogs(state.Logs, timestamp),
                     [Type |-> logType, Timestamp |-> timestamp, Amount |-> amount])

AddLog(state, logType, amount, timestamp) ==
    IF Weekday(timestamp) = Sunday THEN Result(state, ErrSunday, <<>>)
    ELSE IF amount <= 0 THEN Result(state, ErrAmount, <<>>)
    ELSE AddLogToDay(state, GetOrCreateDayLogs(state.Logs, timestamp),
                     [Type |-> logType, Timestamp |-> timestamp, Amount |-> amount])

RemoveDay(logs, dateStr) ==
    SelectSeq(logs, LAMBDA day : day.Date # dateStr)

\* The first log of dayLogs that matches log on timestamp, amount and type;
\* 0 for originalLogIndex == -1.
LogMatches(a, b) ==
    Equal(a.Timestamp, b.Timestamp) /\ a.Amount = b.Amount /\ a.Type = b.Type

FindLog(dayLogs, log) ==
    IF \A i \in 1..Len(dayLogs) : ~LogMatches(dayLogs[i], log) THEN 0
    ELSE CHOOSE i \in 1..Len(dayLogs) :
            /\ LogMatches(dayLogs[i], log)
            /\ \A j \in 1..(i - 1) : ~LogMatches(dayLogs[j], log)

\* append(day.Logs[:i], day.Logs[i+1:]...)
RemoveAt(dayLogs, i) ==
    SubSeq(dayLogs, 1, i - 1) \o SubSeq(dayLogs, i + 1, Len(dayLogs))

\* The store after the log is removed, the Day kept even when left empty.
RemoveLogKeepsDay(logs, day, originalLogIndex, dateStr) ==
    [logs EXCEPT ![day].Logs = RemoveAt(@, originalLogIndex)]

\* The store after the log is removed; the Day goes when it is left empty.
RemoveLog(logs, day, originalLogIndex, dateStr) ==
    IF Len(logs[day].Logs) = 1
    THEN RemoveDay([logs EXCEPT ![day].Logs = RemoveAt(@, originalLogIndex)], dateStr)
    ELSE [logs EXCEPT ![day].Logs = RemoveAt(@, originalLogIndex)]

\* UndoLastAction once the log is found at originalLogIndex of the Day.
UndoFound(popped, lastUndoItem, day, originalLogIndex, tnow) ==
    IF originalLogIndex = 0 THEN Result(popped, ErrNoEntry, <<>>)
    ELSE Result(
            RecalculateOverallStats(
                RecalculateWeeklyStats(
                    [popped EXCEPT
                        !.Logs = RemoveLog(@, day, originalLogIndex,
                                           lastUndoItem.DayDate)],
                    GetWeekID(ParseDate(lastUndoItem.DayDate))),
                tnow),
            "", lastUndoItem.Log)

\* UndoLastAction once the item is popped; day is the index of its Day.
UndoPopped(popped, lastUndoItem, day, tnow) ==
    IF day = 0 THEN Result(popped, ErrNoDay, <<>>)
    ELSE UndoFound(popped, lastUndoItem, day,
                   FindLog(popped.Logs[day].Logs, lastUndoItem.Log), tnow)

\* UndoLastAction recalculating the streak before it looks at the stack.
UndoRecalculatesFirst(state, tnow) ==
    IF Len(state.UndoStack) = 0
    THEN Result(RecalculateOverallStats(state, tnow), ErrNoUndo, <<>>)
    ELSE UndoPopped(
            [state EXCEPT !.UndoStack = SubSeq(@, 1, Len(@) - 1)],
            state.UndoStack[Len(state.UndoStack)],
            GetDayLogs(state.Logs, state.UndoStack[Len(state.UndoStack)].DayDate),
            tnow)

UndoLastAction(state, tnow) ==
    IF Len(state.UndoStack) = 0 THEN Result(state, ErrNoUndo, <<>>)
    ELSE UndoPopped(
            [state EXCEPT !.UndoStack = SubSeq(@, 1, Len(@) - 1)],
            state.UndoStack[Len(state.UndoStack)],
            GetDayLogs(state.Logs, state.UndoStack[Len(state.UndoStack)].DayDate),
            tnow)

\* The surplus of CalculateCurrentWeekStats without the doubling.
LiveSurplusSingle(studyCredits, weeklyGoal) ==
    IF studyCredits > weeklyGoal THEN studyCredits - weeklyGoal ELSE 0

\* The surplus rule of CalculateCurrentWeekStats.
LiveSurplus(studyCredits, weeklyGoal) ==
    IF studyCredits > weeklyGoal THEN (studyCredits - weeklyGoal) * 2 ELSE 0

\* currentWeekSurplus taken from the best week on record, whichever it is.
StoredSurplusAnyWeek(weeklySurplus, weekID) ==
    IF \E k \in DOMAIN weeklySurplus : weeklySurplus[k] > 0
    THEN CHOOSE v \in {weeklySurplus[k] : k \in DOMAIN weeklySurplus} :
            \A k \in DOMAIN weeklySurplus : weeklySurplus[k] <= v
    ELSE 0

\* currentWeekSurplus: the stored value, "default to 0 if not present",
\* not negative.
StoredSurplus(weeklySurplus, weekID) ==
    IF MapGet(weeklySurplus, weekID) < 0 THEN 0 ELSE MapGet(weeklySurplus, weekID)

\* breaksAvailable left as computed, below zero or not.
BreaksAvailableUnfloored(available, surplus, breakStart) == available

\* breaksAvailable from BreakStart + currentWeekSurplus - breaksUsed; the
\* body of the cap of the first branch is commented out in the source.
BreaksAvailable(available, surplus, breakStart) ==
    IF surplus = 0 /\ available > breakStart THEN available
    ELSE IF available < 0 THEN 0
    ELSE available

\* CalculateCurrentWeekStats writing the surplus whether it differs or not.
WeekStatsAlwaysStores(state, weekID, week, surplus, currentWeekSurplus) ==
    Result(StoreSurplus(state, weekID, surplus),
           "",
           <<week.studyCredits, week.breaksUsed,
             BreaksAvailable(state.Config.BreakStart + currentWeekSurplus
                                - week.breaksUsed,
                             surplus, state.Config.BreakStart)>>)

\* CalculateCurrentWeekStats from the sums of the week.
WeekStats(state, weekID, week, surplus, currentWeekSurplus) ==
    Result(IF surplus # currentWeekSurplus
           THEN StoreSurplus(state, weekID, surplus)
           ELSE state,
           "",
           <<week.studyCredits, week.breaksUsed,
             BreaksAvailable(state.Config.BreakStart + currentWeekSurplus
                                - week.breaksUsed,
                             surplus, state.Config.BreakStart)>>)

WeekStatsOf(state, weekID, week) ==
    WeekStats(state, weekID, week,
              LiveSurplus(week.studyCredits, state.Config.WeeklyGoal),
              StoredSurplus(state.WeeklySurplus, weekID))

CalculateCurrentWeekStats(state, tnow) ==
    WeekStatsOf(state, GetWeekID(tnow), SumWeek(state.Logs, GetWeekBounds(tnow)))

\* "Keep the day only if it's outside the current week"
KeepOutside(logs, bounds) ==
    SelectSeq(logs, LAMBDA day :
        \/ Before(ParseDate(day.Date), bounds.start)
        \/ After(ParseDate(day.Date), bounds.end))

\* ResetWeekData leaving the UndoStack as it is.
ResetKeepsUndo(state, tnow) ==
    Result(
        RecalculateOverallStats(
            [state EXCEPT
                !.Logs = KeepOutside(@, GetWeekBounds(tnow)),
                !.WeeklySurplus = MapDelete(@, GetWeekID(tnow))],
            tnow),
        "", <<>>)

ResetWeekData(state, tnow) ==
    Result(
        RecalculateOverallStats(
            [state EXCEPT
                !.Logs = KeepOutside(@, GetWeekBounds(tnow)),
                !.WeeklySurplus = MapDelete(@, GetWeekID(tnow)),
                !.UndoStack = <<>>],
            tnow),
        "", <<>>)

\* goalCmd with an argument that strconv.Atoi reads as newGoal.
SetGoal(state, newGoal) ==
    IF newGoal <= 0 THEN Result(state, ErrInvalidGoal, <<>>)
    ELSE Result([state EXCEPT !.Config.WeeklyGoal = newGoal], "", <<>>)

ErrInvalidAmount == "invalid amount"
ErrNotEnough     == "not enough break credits"

\* The end of a command: the AppState in memory, the error reported and
\* whether SaveState was reached.
Outcome(state, err, saved) == [state |-> state, err |-> err, saved |-> saved]

\* breakCmd after AddLog returned r: the state is saved when AddLog succeeded.
BreakLogged(r) == Outcome(r.state, r.err, r.err = "")

\* breakCmd logging the break with no look at breaksAvailable.
BreakUnchecked(stats, amount, tnow) ==
    BreakLogged(AddLog(stats.state, LogTypeBreak, amount, tnow))

\* breakCmd from the pre-check on, stats being the result of
\* CalculateCurrentWeekStats.
BreakChecked(stats, amount, tnow) ==
    IF amount > stats.ret[3] THEN Outcome(stats.state, ErrNotEnough, FALSE)
    ELSE BreakLogged(AddLog(stats.state, LogTypeBreak, amount, tnow))

\* breakCmd with an argument that strconv.Atoi reads as amount.
BreakCmd(state, amount, tnow) ==
    IF amount <= 0 THEN Outcome(state, ErrInvalidAmount, FALSE)
    ELSE BreakChecked(CalculateCurrentWeekStats(state, tnow), amount, tnow)

\* The state the next invocation loads: the one saved, or else the one that
\* was loaded.
Persisted(before, outcome) ==
    IF outcome.saved THEN outcome.state ELSE before

\* strings.TrimSpace(strings.ToLower(input)) on the lines a user may type.
TrimLower(input) ==
    CASE input = "Reset Grain" -> "reset grain"
      [] input = " reset grain " -> "reset grain"
      [] input = "YES" -> "yes"
      [] input = "Y" -> "y"
      [] OTHER -> input

\* cli.PromptConfirmation on the line the user types.
PromptConfirmation(input) ==
    \/ TrimLower(input) = "yes"
    \/ TrimLower(input) = "y"
    \/ TrimLower(input) = "reset grain"

\* resetCmd after ResetWeekData returned r.
ResetDone(r) == Outcome(r.state, r.err, r.err = "")

\* resetCmd on the line the user types at the prompt.
ResetCmd(state, input, tnow) ==
    IF PromptConfirmation(input) THEN ResetDone(ResetWeekData(state, tnow))
    ELSE Outcome(state, "", FALSE)

\* time.Now().Format("2006-01-06_15-04-05") in backup_%s.json: the layout
\* reads year, month, two-digit year, hour, minute and second.
BackupFileName(t) ==
    <<t.year, t.month, t.year % 100, t.hour, t.minute, t.second>>

\* The data file when there is none.
NoFile == "no file"

ErrNoData == "data file does not exist, nothing to back up"

\* BackupData at t: the backup directory afterwards, files by name, and the
\* error; data is what the data file holds.
BackupData(dir, data, t) ==
    IF data = NoFile THEN [dir |-> dir, err |-> ErrNoData]
    ELSE [dir |-> MapPut(dir, BackupFileName(t), data), err |-> ""]

(***************************************************************************)
(* The state machine: one AppState, the wall clock, and the callers'       *)
(* inputs.                                                                 *)
(***************************************************************************)
\* The most entries the store holds in the model.
MaxLogs == 2

\* The zones the process runs in: offsets east of UTC, in hours.
Offsets == {-5, 0}

\* LoadConfig's defaults, offered at the first run.
defaultWeeklyGoal == 90
defaultBreakStart == 12

\* Config values LoadConfig can return.
Goals       == {1, 3}
BreakStarts == {3}

\* Arguments of AddLog and of the goal command.
LogTypes == {LogTypeStudy, LogTypeBreak}
Amounts  == {0, 2}
GoalArgs == {0} \cup Goals

\* Timestamps handed to AddLog: Monday of 2019-W51, the Sunday that ends it,
\* and Tuesday of 2019-W52, the last ISO week of 2019.
LogStamps(off) ==
    {Date(2019, 12, 16, 10, off), Date(2019, 12, 22, 10, off),
     Date(2019, 12, 24, 10, off)}

\* The moments at which operations run: in 2019-W51, 2019-W52 and 2020-W01.
NowStamps(off) ==
    {Date(2019, 12, 17, 12, off), Date(2019, 12, 24, 12, off),
     Date(2019, 12, 31, 12, off)}

\* The AppState the variables hold.
State ==
    [Logs |-> Logs, WeeklySurplus |-> WeeklySurplus, Streak |-> Streak,
     BestSurplus |-> BestSurplus, UndoStack |-> UndoStack, Config |-> Config]

RECURSIVE TotalEntries(_)
\* CalculateTotalStats' totalEntries.
TotalEntries(logs) ==
    IF logs = <<>> THEN 0 ELSE Len(Head(logs).Logs) + TotalEntries(Tail(logs))

NoProbe == [stage |-> "off", date |-> 0, id |-> 0, rep |-> 0]

\* The variables after the call op that ended as r.
Becomes(op, r) ==
    /\ Logs' = r.state.Logs
    /\ WeeklySurplus' = r.state.WeeklySurplus
    /\ Streak' = r.state.Streak
    /\ BestSurplus' = r.state.BestSurplus
    /\ UndoStack' = r.state.UndoStack
    /\ Config' = r.state.Config
    /\ last' = [op |-> op, err |-> r.err]
    /\ UNCHANGED <<now, probe>>

Init ==
    /\ \E off \in Offsets : now = Date(2019, 12, 17, 12, off)
    /\ \E g \in Goals, b \in BreakStarts :
          Config = [WeeklyGoal |-> g, BreakStart |-> b]
    /\ Logs = <<>>
    /\ WeeklySurplus = EmptyMap
    /\ Streak = 0
    /\ BestSurplus = 0
    /\ UndoStack = <<>>
    /\ last = [op |-> "LoadState", err |-> ""]
    /\ probe = NoProbe

DoAddLog ==
    \E logType \in LogTypes, amount \in Amounts, timestamp \in LogStamps(now.off) :
        /\ \/ Weekday(timestamp) = Sunday
           \/ amount <= 0
           \/ TotalEntries(Logs) < MaxLogs
        /\ Becomes("AddLog", AddLog(State, logType, amount, timestamp))

DoUndoLastAction == Becomes("UndoLastAction", UndoLastAction(State, now))

DoCurrentWeekStats == Becomes("CalculateCurrentWeekStats", CalculateCurrentWeekStats(State, now))

DoRecalculateOverallStats ==
    Becomes("RecalculateOverallStats",
            Result(RecalculateOverallStats(State, now), "", <<>>))

DoResetWeekData == Becomes("ResetWeekData", ResetWeekData(State, now))

\* The break command; what it did not save is lost when the process ends.
DoBreakCmd ==
    \E amount \in Amounts :
        /\ Weekday(now) = Sunday \/ amount <= 0 \/ TotalEntries(Logs) < MaxLogs
        /\ Becomes("breakCmd",
                   Result(Persisted(State, BreakCmd(State, amount, now)),
                          BreakCmd(State, amount, now).err, <<>>))

DoSetGoal == \E newGoal \in GoalArgs : Becomes("SetGoal", SetGoal(State, newGoal))

\* Time passes.
Tick ==
    /\ \E t \in NowStamps(now.off) : Before(now, t) /\ now' = t
    /\ UNCHANGED <<Logs, WeeklySurplus, Streak, BestSurplus, UndoStack, Config,
                   last, probe>>

Next ==
    \/ DoAddLog
    \/ DoUndoLastAction
    \/ DoCurrentWeekStats
    \/ DoRecalculateOverallStats
    \/ DoResetWeekData
    \/ DoSetGoal
    \/ DoBreakCmd
    \/ Tick

Spec == Init /\ [][Next]_vars

(***************************************************************************)
(* The week identifier and its reverse resolution, date by date.           *)
(***************************************************************************)
FirstProbeDay == DaysFromCivil(2000, 1, 1)
LastProbeDay  == DaysFromCivil(2099, 12, 31)

\* Noon UTC of a day number.
Noon(day) == [inst |-> day * HoursPerDay + 12, off |-> 0]

WeekInit ==
    /\ \E day \in FirstProbeDay..LastProbeDay :
          probe = [stage |-> "date", date |-> day, id |-> 0, rep |-> 0]
    /\ now = Date(2019, 12, 17, 12, 0)
    /\ Config = [WeeklyGoal |-> 2, BreakStart |-> 3]
    /\ Logs = <<>>
    /\ WeeklySurplus = EmptyMap
    /\ Streak = 0
    /\ BestSurplus = 0
    /\ UndoStack = <<>>
    /\ last = [op |-> "LoadState", err |-> ""]

\* GetWeekID of the date.
ProbeIdentify ==
    /\ probe.stage = "date"
    /\ probe' = [probe EXCEPT !.stage = "id", !.id = GetWeekID(Noon(probe.date))]
    /\ UNCHANGED <<Logs, WeeklySurplus, Streak, BestSurplus, UndoStack, Config,
                   now, last>>

\* The date RecalculateWeeklyStats resolves the identifier to.
ProbeResolve ==
    /\ probe.stage = "id"
    /\ probe' = [probe EXCEPT !.stage = "resolved",
                              !.rep = LocalDay(WeekIDToTime(probe.id))]
    /\ UNCHANGED <<Logs, WeeklySurplus, Streak, BestSurplus, UndoStack, Config,
                   now, last>>

WeekNext == ProbeIdentify \/ ProbeResolve

WeekSpec == WeekInit /\ [][WeekNext]_vars

(***************************************************************************)
(* Two backups, one after the other.                                       *)
(***************************************************************************)
\* The moments backups are taken at, by the fields of the wall clock.
BackupTimes ==
    [year : {2019, 2020}, month : {11, 12}, day : {6, 19},
     hour : {9, 15}, minute : {0, 30}, second : {0, 5}]

\* The fields of a moment, most significant first.
Fields(t) == <<t.year, t.month, t.day, t.hour, t.minute, t.second>>

\* a is a moment before b.
Earlier(a, b) ==
    \E i \in 1..6 :
        /\ Fields(a)[i] < Fields(b)[i]
        /\ \A j \in 1..(i - 1) : Fields(a)[j] = Fields(b)[j]

BackupInit ==
    /\ \E first \in BackupTimes, second \in BackupTimes :
          /\ Earlier(first, second)
          /\ probe = [stage |-> "start", first |-> first, second |-> second,
                      dir |-> EmptyMap, err |-> ""]
    /\ now = Date(2019, 12, 17, 12, 0)
    /\ Config = [WeeklyGoal |-> 2, BreakStart |-> 3]
    /\ Logs = <<>>
    /\ WeeklySurplus = EmptyMap
    /\ Streak = 0
    /\ BestSurplus = 0
    /\ UndoStack = <<>>
    /\ last = [op |-> "LoadState", err |-> ""]

\* backupCmd at the first moment, the data file holding "first".
BackupFirst ==
    /\ probe.stage = "start"
    /\ probe' = [probe EXCEPT
                    !.stage = "one",
                    !.dir = BackupData(probe.dir, "first", probe.first).dir,
                    !.err = BackupData(probe.dir, "first", probe.first).err]
    /\ UNCHANGED <<Logs, WeeklySurplus, Streak, BestSurplus, UndoStack, Config,
                   now, last>>

\* backupCmd at the second moment, the data file holding "second" or gone.
BackupSecond ==
    /\ probe.stage = "one"
    /\ \E data \in {"second", NoFile} :
          probe' = [probe EXCEPT
                      !.stage = "two",
                      !.dir = BackupData(probe.dir, data, probe.second).dir,
                      !.err = BackupData(probe.dir, data, probe.second).err]
    /\ UNCHANGED <<Logs, WeeklySurplus, Streak, BestSurplus, UndoStack, Config,
                   now, last>>

BackupNext == BackupFirst \/ BackupSecond

BackupSpec == BackupInit /\ [][BackupNext]_vars

(***************************************************************************)
(* The loop of RecalculateOverallStats, pass by pass, over stores that     *)
(* hold one Day a week for years back.                                     *)
(***************************************************************************)
\* The end of one pass of the loop: whether the loop stops there, and
\* checkTime and currentStreak as the pass leaves them.
Pass(stop, checkTime, currentStreak) ==
    [stop |-> stop, checkTime |-> checkTime, currentStreak |-> currentStreak]

\* One pass with no look at how far back the walk has gone.
StreakPassUnlimited(state, tnow, checkTime, currentStreak, week) ==
    IF ~week.foundLogs \/ week.studyCredits < state.Config.WeeklyGoal
    THEN Pass(TRUE, checkTime, currentStreak)
    ELSE IF Len(state.Logs) = 0
    THEN Pass(TRUE, AddDays(checkTime, -7), currentStreak + 1)
    ELSE Pass(FALSE, AddDays(checkTime, -7), currentStreak + 1)

\* One pass from the sums of the week of checkTime on.
StreakPassOn(state, tnow, checkTime, currentStreak, week) ==
    IF ~week.foundLogs \/ week.studyCredits < state.Config.WeeklyGoal
    THEN Pass(TRUE, checkTime, currentStreak)
    ELSE IF /\ Len(state.Logs) > 0
            /\ Before(AddDays(checkTime, -7), AddYears(tnow, -5))
    THEN Pass(TRUE, AddDays(checkTime, -7), currentStreak + 1)
    ELSE IF Len(state.Logs) = 0
    THEN Pass(TRUE, AddDays(checkTime, -7), currentStreak + 1)
    ELSE Pass(FALSE, AddDays(checkTime, -7), currentStreak + 1)

\* One pass of the loop of RecalculateOverallStats.
StreakPass(state, tnow, checkTime, currentStreak) ==
    IF GetWeekID(checkTime) = GetWeekID(tnow)
    THEN Pass(TRUE, checkTime, currentStreak)
    ELSE StreakPassOn(state, tnow, checkTime, currentStreak,
                      SumWeek(state.Logs, GetWeekBounds(checkTime)))

\* The most weeks a store of the walk holds.
LongStore == 270

\* The most weeks of a store on which the walk is set against
\* RecalculateOverallStats in one call.
ShortStore == 40

\* Numbers of weeks the stores hold: none, a few, and about five years.
StoreWeeks == {0, 1, 2, 3, ShortStore, 260, 261, LongStore}

\* The week left without a Day, counted back from the clock; 0 for none.
Gaps == {0, 2}

\* The moments the walk starts at: five years before the first hold one
\* 29 February, five years before the second hold two.
WalkStamps(off) == {Date(2019, 12, 17, 12, off), Date(2020, 3, 3, 12, off)}

\* A study log of amount credits at the wall clock of tnow, back weeks ago.
WeekAgoDay(tnow, back, amount) ==
    [Date |-> FormatDate(AddDays(tnow, -7 * back)),
     Logs |-> <<[Type      |-> LogTypeStudy,
                 Timestamp |-> AddDays(tnow, -7 * back),
                 Amount    |-> amount]>>]

\* The store AddLog builds from one such log in each of the weeks weeks
\* before the week of tnow but the one of gap, the earliest Day first.
WeeklyStore(tnow, weeks, gap, amount) ==
    SelectSeq([i \in 1..weeks |-> WeekAgoDay(tnow, weeks + 1 - i, amount)],
              LAMBDA day : day.Date # WeekAgoDay(tnow, gap, amount).Date)

StreakInit ==
    /\ \E off \in Offsets : \E tnow \in WalkStamps(off) : now = tnow
    /\ Config = [WeeklyGoal |-> 2, BreakStart |-> 3]
    /\ \E weeks \in StoreWeeks, gap \in Gaps :
          Logs = WeeklyStore(now, weeks, gap, Config.WeeklyGoal)
    /\ WeeklySurplus = EmptyMap
    /\ Streak = 0
    /\ BestSurplus = 0
    /\ UndoStack = <<>>
    /\ last = [op |-> "LoadState", err |-> ""]
    /\ probe = [stage |-> "loop", passes |-> 0,
                checkTime |-> AddDays(now, -7), currentStreak |-> 0]

\* The variables after a pass that ended as pass.
Passed(stage, pass) ==
    /\ probe' = [stage |-> stage, passes |-> probe.passes + 1,
                 checkTime |-> pass.checkTime,
                 currentStreak |-> pass.currentStreak]
    /\ UNCHANGED <<Logs, WeeklySurplus, BestSurplus, UndoStack, Config, now>>

\* A pass that ends in the next pass.
StreakContinue ==
    /\ probe.stage = "loop"
    /\ \E pass \in {StreakPass(State, now, probe.checkTime, probe.currentStreak)} :
          /\ ~pass.stop
          /\ Passed("loop", pass)
          /\ UNCHANGED <<Streak, last>>

\* A pass that ends in a break, and state.Streak = currentStreak.
StreakBreak ==
    /\ probe.stage = "loop"
    /\ \E pass \in {StreakPass(State, now, probe.checkTime, probe.currentStreak)} :
          /\ pass.stop
          /\ Passed("done", pass)
          /\ Streak' = pass.currentStreak
          /\ last' = [op |-> "RecalculateOverallStats", err |-> ""]

StreakNext == StreakContinue \/ StreakBreak

\* Each step is one pass of the loop; probe.passes counts them.
StreakSpec == StreakInit /\ [][StreakNext]_vars

(***************************************************************************)
(* internal/config and the goal command: the Config from one invocation to *)
(* the next.                                                               *)
(***************************************************************************)
\* A line of text: empty, a decimal integer val, or other text.
Line(kind, val) == [kind |-> kind, val |-> val]

\* strconv.Atoi: the integer read, or an error.
Atoi(line) ==
    IF line.kind = "int" THEN [val |-> line.val, err |-> FALSE]
    ELSE [val |-> 0, err |-> TRUE]

\* The first run's answer to "Enter your study goal per week".
PromptWeeklyGoal(goalInput) ==
    IF goalInput.kind = "empty" THEN defaultWeeklyGoal
    ELSE IF Atoi(goalInput).err \/ Atoi(goalInput).val <= 0 THEN defaultWeeklyGoal
    ELSE Atoi(goalInput).val

\* The first run's answer to "Set initial break credits".
PromptBreakStart(breakInput) ==
    IF breakInput.kind = "empty" THEN defaultBreakStart
    ELSE IF Atoi(breakInput).err \/ Atoi(breakInput).val < 0 THEN defaultBreakStart
    ELSE Atoi(breakInput).val

\* config.json: whether it exists, and the integers it holds.
ConfigFile(exists, weeklyGoal, breakStart) ==
    [exists |-> exists, WeeklyGoal |-> weeklyGoal, BreakStart |-> breakStart]

\* The file SaveConfig writes for cfg.
SaveConfig(cfg) == ConfigFile(TRUE, cfg.WeeklyGoal, cfg.BreakStart)

\* "Ensure defaults if values are missing or invalid", the goal only.
FileDefaultsGoalOnly(file) ==
    [WeeklyGoal |-> IF file.WeeklyGoal <= 0 THEN defaultWeeklyGoal
                    ELSE file.WeeklyGoal,
     BreakStart |-> file.BreakStart]

\* "Ensure defaults if values are missing or invalid"
FileDefaults(file) ==
    [WeeklyGoal |-> IF file.WeeklyGoal <= 0 THEN defaultWeeklyGoal
                    ELSE file.WeeklyGoal,
     BreakStart |-> IF file.BreakStart < 0 THEN defaultBreakStart
                    ELSE file.BreakStart]

\* The first run: the Config from the prompts, saved.
FirstRunConfig(cfg) == [cfg |-> cfg, file |-> SaveConfig(cfg)]

\* LoadConfig: the Config it returns and config.json afterwards.
LoadConfig(file, goalInput, breakInput) ==
    IF ~file.exists
    THEN FirstRunConfig([WeeklyGoal |-> PromptWeeklyGoal(goalInput),
                         BreakStart |-> PromptBreakStart(breakInput)])
    ELSE [cfg |-> FileDefaults(file), file |-> file]

\* goalCmd on its argument as typed.
GoalCmd(state, arg) ==
    IF Atoi(arg).err THEN Result(state, ErrInvalidGoal, <<>>)
    ELSE SetGoal(state, Atoi(arg).val)

\* Integers config.json can hold and a user can type; absent fields read 0.
ConfigInts == -1..3

\* Lines typed at the prompts and as the goal command's argument.
Lines ==
    {Line("empty", 0), Line("text", 0)} \cup {Line("int", n) : n \in ConfigInts}

\* config.json before the first invocation: none, or any integers.
ConfigFiles ==
    {ConfigFile(FALSE, 0, 0)}
        \cup {ConfigFile(TRUE, g, b) : g \in ConfigInts, b \in ConfigInts}

\* No invocation has loaded the Config yet: cfg is the zero value.
ConfigInit ==
    /\ \E file \in ConfigFiles : probe = [stage |-> "start", file |-> file]
    /\ Config = [WeeklyGoal |-> 0, BreakStart |-> 0]
    /\ now = Date(2019, 12, 17, 12, 0)
    /\ Logs = <<>>
    /\ WeeklySurplus = EmptyMap
    /\ Streak = 0
    /\ BestSurplus = 0
    /\ UndoStack = <<>>
    /\ last = [op |-> "none", err |-> ""]

\* An invocation begins: loadConfigAndState.
DoLoadConfig ==
    /\ \E goalInput \in Lines, breakInput \in Lines :
          /\ Config' = LoadConfig(probe.file, goalInput, breakInput).cfg
          /\ probe' = [stage |-> "loaded",
                       file  |-> LoadConfig(probe.file, goalInput, breakInput).file]
    /\ last' = [op |-> "LoadConfig", err |-> ""]
    /\ UNCHANGED <<Logs, WeeklySurplus, Streak, BestSurplus, UndoStack, now>>

\* The goal command of the invocation; SaveConfig when it succeeds.
DoGoalCmd ==
    /\ probe.stage = "loaded"
    /\ \E arg \in Lines :
          /\ Config' = GoalCmd(State, arg).state.Config
          /\ probe' = [stage |-> "loaded",
                       file  |-> IF GoalCmd(State, arg).err = ""
                                 THEN SaveConfig(GoalCmd(State, arg).state.Config)
                                 ELSE probe.file]
          /\ last' = [op |-> "goalCmd", err |-> GoalCmd(State, arg).err]
    /\ UNCHANGED <<Logs, WeeklySurplus, Streak, BestSurplus, UndoStack, now>>

\* The user edits config.json between invocations (the config command).
DoEditConfig ==
    /\ probe.stage = "loaded"
    /\ \E g \in ConfigInts, b \in ConfigInts :
          probe' = [stage |-> "start", file |-> ConfigFile(TRUE, g, b)]
    /\ Config' = [WeeklyGoal |-> 0, BreakStart |-> 0]
    /\ last' = [op |-> "configCmd", err |-> ""]
    /\ UNCHANGED <<Logs, WeeklySurplus, Streak, BestSurplus, UndoStack, now>>

ConfigNext == DoLoadConfig \/ DoGoalCmd \/ DoEditConfig

ConfigSpec == ConfigInit /\ [][ConfigNext]_vars

(***************************************************************************)
(* The properties.  An operation is applied to the state the variables     *)
(* hold, so a property of an operation is a property of every reachable    *)
(* state and every input.                                                  *)
(***************************************************************************)
\* Amounts a caller can pass, valid or not.
AnyAmounts == {-1, 0, 2}

\* Timestamps a caller can pass: those of LogStamps and the last hour of the
\* Saturday and of the Sunday of 2019-W51.
AnyStamps(off) ==
    LogStamps(off) \cup {Date(2019, 12, 21, 23, off), Date(2019, 12, 22, 23, off)}

\* The state after AddLog and then UndoLastAction.
RoundTrip(state, logType, amount, timestamp, tnow) ==
    UndoLastAction(AddLog(state, logType, amount, timestamp).state, tnow).state

\* C1: from every reachable state, a valid AddLog (non-Sunday timestamp,
\* amount > 0) followed at once by UndoLastAction gives back the DayLogStore,
\* the WeekSurplusMap (same keys, same values) and the Streak.
C1_RoundTripRestores ==
    \A logType \in LogTypes, amount \in AnyAmounts, timestamp \in AnyStamps(now.off) :
        (Weekday(timestamp) # Sunday /\ amount > 0) =>
            /\ RoundTrip(State, logType, amount, timestamp, now).Logs = Logs
            /\ RoundTrip(State, logType, amount, timestamp, now).WeeklySurplus
                    = WeeklySurplus
            /\ RoundTrip(State, logType, amount, timestamp, now).Streak = Streak

\* C2: for every date from 2000-01-01 through 2099-12-31, the week
\* identifier of the date RecalculateWeeklyStats resolves the date's week
\* identifier to is that identifier again.
C2_WeekIDFixedPoint ==
    probe.stage = "resolved" => GetWeekID(Noon(probe.rep)) = probe.id

RECURSIVE WeekStudyTotal(_, _)
\* S_k: the Study amounts in the non-Sunday buckets dated in ISO week k.
WeekStudyTotal(logs, k) ==
    IF logs = <<>> THEN 0
    ELSE (IF /\ GetWeekID(ParseDate(Head(logs).Date)) = k
             /\ Weekday(ParseDate(Head(logs).Date)) # Sunday
          THEN SumAmounts(Head(logs).Logs, LogTypeStudy)
          ELSE 0)
         + WeekStudyTotal(Tail(logs), k)

\* C3: in every reachable state each key k of the WeekSurplusMap maps to
\* 2 * (S_k - WeeklyGoal) if S_k >= WeeklyGoal and to 0 otherwise, S_k and
\* WeeklyGoal being those of the state.
C3_SurplusDerivable ==
    \A k \in DOMAIN WeeklySurplus :
        WeeklySurplus[k] =
            IF WeekStudyTotal(Logs, k) >= Config.WeeklyGoal
            THEN 2 * (WeekStudyTotal(Logs, k) - Config.WeeklyGoal)
            ELSE 0

\* What CurrentWeekStats returns first after AddLog(Study, n, t) on the
\* empty state.
FirstWeekStats(cfg, n, t, tnow) ==
    CalculateCurrentWeekStats(AddLog(FreshState(cfg), LogTypeStudy, n, t).state,
                              tnow).ret

\* Ten o'clock on the Tuesday of the week of tnow.
TuesdayOf(tnow) ==
    [inst |-> GetWeekBounds(tnow).start.inst + 34, off |-> tnow.off]

\* C4: from the empty state, after AddLog(Study, n, t) for a non-Sunday t of
\* the current week, the first CurrentWeekStats returns
\* (n, 0, B + max(0, (n - G) * 2)); with G = 90, B = 12, n = 95 it returns
\* (95, 0, 22).
C4_FirstWeekStats ==
    /\ \A n \in AnyAmounts, t \in AnyStamps(now.off) :
          (n > 0 /\ Weekday(t) # Sunday /\ GetWeekID(t) = GetWeekID(now)) =>
              FirstWeekStats(Config, n, t, now) =
                  <<n, 0,
                    Config.BreakStart
                    + (IF (n - Config.WeeklyGoal) * 2 > 0
                       THEN (n - Config.WeeklyGoal) * 2 ELSE 0)>>
    /\ FirstWeekStats([WeeklyGoal |-> defaultWeeklyGoal,
                       BreakStart |-> defaultBreakStart],
                      95, TuesdayOf(now), now) = <<95, 0, 22>>

\* C5: in every reachable state, when the studyCredits of the current week
\* are below WeeklyGoal, the breaksAvailable CurrentWeekStats returns are at
\* most BreakStart.
C5_NoSurplusBelowGoal ==
    CalculateCurrentWeekStats(State, now).ret[1] < Config.WeeklyGoal =>
        CalculateCurrentWeekStats(State, now).ret[3] <= Config.BreakStart

\* C6: when the studyCredits of the current week exceed WeeklyGoal, then
\* after a CurrentWeekStats call the WeekSurplusMap holds exactly
\* (studyCredits - WeeklyGoal) * 2 for the current week and BestSurplus is at
\* least that.
C6_SurplusExact ==
    CalculateCurrentWeekStats(State, now).ret[1] > Config.WeeklyGoal =>
        /\ GetWeekID(now) \in DOMAIN CalculateCurrentWeekStats(State, now).state.WeeklySurplus
        /\ CalculateCurrentWeekStats(State, now).state.WeeklySurplus[GetWeekID(now)]
              = (CalculateCurrentWeekStats(State, now).ret[1] - Config.WeeklyGoal) * 2
        /\ CalculateCurrentWeekStats(State, now).state.BestSurplus
              >= (CalculateCurrentWeekStats(State, now).ret[1] - Config.WeeklyGoal) * 2

\* A CurrentWeekStats call has just stored the surplus of a week above goal.
C6_SurplusStored ==
    /\ last.op = "CalculateCurrentWeekStats"
    /\ CalculateCurrentWeekStats(State, now).ret[1] > Config.WeeklyGoal
    /\ MapGet(WeeklySurplus, GetWeekID(now))
          = (CalculateCurrentWeekStats(State, now).ret[1] - Config.WeeklyGoal) * 2
    /\ BestSurplus >= MapGet(WeeklySurplus, GetWeekID(now))

\* The day number of the Monday of the week of tnow.
MondayOf(tnow) == LocalDay(tnow) - AdjWeekday(Weekday(tnow))

\* The day number of the date of a bucket.
BucketDay(day) == LocalDay(ParseDate(day.Date))

RECURSIVE StudyFrom(_, _)
\* The Study amounts in the non-Sunday buckets of the week that begins on
\* the day number monday.
StudyFrom(logs, monday) ==
    IF logs = <<>> THEN 0
    ELSE (IF BucketDay(Head(logs)) \in monday..(monday + 5)
          THEN SumAmounts(Head(logs).Logs, LogTypeStudy)
          ELSE 0)
         + StudyFrom(Tail(logs), monday)

\* The weeks the walk of the streak looks back over: the model's entries
\* lie within them.
StreakWalk == 3

RECURSIVE StreakFrom(_, _, _, _)
\* The number of consecutive weeks, from the k-th week before the one that
\* begins on monday backwards, that have a non-Sunday bucket and a study
\* total of at least goal.
StreakFrom(logs, goal, monday, k) ==
    IF k > StreakWalk THEN 0
    ELSE IF /\ \E i \in 1..Len(logs) :
                  BucketDay(logs[i]) \in (monday - 7 * k)..(monday - 7 * k + 5)
            /\ StudyFrom(logs, monday - 7 * k) >= goal
    THEN 1 + StreakFrom(logs, goal, monday, k + 1)
    ELSE 0

\* C7: after RecalculateOverallStats, Streak is the number of consecutive
\* weeks right before the current week that each have a non-Sunday bucket
\* and a study total >= WeeklyGoal.
C7_StreakCountsPriorWeeks ==
    RecalculateOverallStats(State, now).Streak
        = StreakFrom(Logs, Config.WeeklyGoal, MondayOf(now), 1)

\* C8: after ResetWeekData the UndoStack is empty, no bucket dated Monday
\* through Sunday of the current week is left, and the WeekSurplusMap has no
\* key for the current week.
C8_ResetClearsWeek ==
    /\ ResetWeekData(State, now).state.UndoStack = <<>>
    /\ \A i \in 1..Len(ResetWeekData(State, now).state.Logs) :
          BucketDay(ResetWeekData(State, now).state.Logs[i])
              \notin MondayOf(now)..(MondayOf(now) + 6)
    /\ GetWeekID(now) \notin DOMAIN ResetWeekData(State, now).state.WeeklySurplus

\* C9: AddLog with a timestamp on a Sunday fails for every kind and every
\* amount and leaves the whole AppState as it was; no bucket is created.
C9_SundayRejected ==
    \A logType \in LogTypes, amount \in AnyAmounts, timestamp \in AnyStamps(now.off) :
        Weekday(timestamp) = Sunday =>
            /\ AddLog(State, logType, amount, timestamp).err # ""
            /\ AddLog(State, logType, amount, timestamp).state = State

\* AddLog has just turned a Sunday timestamp away from a store with entries.
C9_SundayRejectedSeen ==
    /\ last = [op |-> "AddLog", err |-> ErrSunday]
    /\ Logs # <<>>
    /\ UndoStack # <<>>

\* C10: AddLog with amount <= 0 fails for every kind and every timestamp and
\* leaves the whole AppState as it was.
C10_AmountRejected ==
    \A logType \in LogTypes, amount \in AnyAmounts, timestamp \in AnyStamps(now.off) :
        amount <= 0 =>
            /\ AddLog(State, logType, amount, timestamp).err # ""
            /\ AddLog(State, logType, amount, timestamp).state = State

\* AddLog has just turned a non-positive amount away from a store with
\* entries.
C10_AmountRejectedSeen ==
    /\ last = [op |-> "AddLog", err |-> ErrAmount]
    /\ Logs # <<>>
    /\ UndoStack # <<>>

\* C11: UndoLastAction on an empty UndoStack fails with the nothing-to-undo
\* error and leaves the whole AppState as it was: neither the WeekSurplusMap
\* nor the Streak is recalculated.
C11_NothingToUndo ==
    UndoStack = <<>> =>
        /\ UndoLastAction(State, now).err = ErrNoUndo
        /\ UndoLastAction(State, now).state = State

\* An undo has just failed on an empty stack, over a store with entries and
\* a Streak that a recalculation would change.
C11_NothingToUndoSeen ==
    /\ last = [op |-> "UndoLastAction", err |-> ErrNoUndo]
    /\ UndoStack = <<>>
    /\ Logs # <<>>
    /\ Streak # RecalculateOverallStats(State, now).Streak

\* Amounts the break command can be given.
BreakArgs == AnyAmounts \cup {1, 4}

\* C12: the break command logs a break of N credits only if N is at most
\* the breaksAvailable CurrentWeekStats returns then; when N is more, the
\* command is rejected before AddLog, nothing is saved and the persisted
\* state is as before.
C12_BreakPreCheck ==
    \A amount \in BreakArgs :
        /\ amount > CalculateCurrentWeekStats(State, now).ret[3] =>
              /\ BreakCmd(State, amount, now).err # ""
              /\ ~BreakCmd(State, amount, now).saved
              /\ BreakCmd(State, amount, now).state.Logs = Logs
              /\ BreakCmd(State, amount, now).state.UndoStack = UndoStack
              /\ Persisted(State, BreakCmd(State, amount, now)) = State
        /\ BreakCmd(State, amount, now).saved =>
              amount <= CalculateCurrentWeekStats(State, now).ret[3]

\* The break command has just turned down a break larger than what is
\* available, after breaks were logged.
C12_BreakRejectedSeen ==
    /\ last = [op |-> "breakCmd", err |-> ErrNotEnough]
    /\ \E i \in 1..Len(UndoStack) : UndoStack[i].Log.Type = LogTypeBreak

\* The valid calls of AddLog the properties try: [logType, amount, timestamp].
ValidCalls(off) ==
    {c \in [logType : LogTypes, amount : AnyAmounts, timestamp : AnyStamps(off)] :
        c.amount > 0 /\ Weekday(c.timestamp) # Sunday}

\* The most calls in a row that the properties try.
MaxRun == 2

RECURSIVE Runs(_, _)
\* The sequences of 1 to k valid calls.
Runs(off, k) ==
    IF k = 0 THEN {}
    ELSE {<<c>> : c \in ValidCalls(off)}
         \cup {Append(run, c) : run \in Runs(off, k - 1), c \in ValidCalls(off)}

RECURSIVE AddAll(_, _)
\* The state after the calls of run, in order.
AddAll(state, run) ==
    IF run = <<>> THEN state
    ELSE AddAll(AddLog(state, Head(run).logType, Head(run).amount,
                       Head(run).timestamp).state,
                Tail(run))

RECURSIVE UndoAll(_, _, _)
\* k calls of UndoLastAction in a row: the state they leave, whether all
\* succeeded, and what they returned, in order.
UndoAll(state, k, tnow) ==
    IF k = 0 THEN [state |-> state, ok |-> TRUE, ret |-> <<>>]
    ELSE LET r    == UndoLastAction(state, tnow)
             rest == UndoAll(r.state, k - 1, tnow)
         IN  [state |-> rest.state,
              ok    |-> r.err = "" /\ rest.ok,
              ret   |-> <<r.ret>> \o rest.ret]

\* The entries the calls of run add, last first.
AddedReversed(run) ==
    [i \in 1..Len(run) |->
        [Type      |-> run[Len(run) + 1 - i].logType,
         Timestamp |-> run[Len(run) + 1 - i].timestamp,
         Amount    |-> run[Len(run) + 1 - i].amount]]

\* C13: after k successful AddLog calls from a reachable state, k calls of
\* UndoLastAction in a row all succeed, return the k added entries last
\* first, and leave the DayLogStore that was there before the first AddLog.
C13_UndoIsLIFO ==
    \A run \in Runs(now.off, MaxRun) :
        LET undone == UndoAll(AddAll(State, run), Len(run), now)
        IN  /\ undone.ok
            /\ undone.ret = AddedReversed(run)
            /\ undone.state.Logs = Logs

\* Lines a user may type at the prompt of the reset command.
ConfirmInputs ==
    {"reset grain", "Reset Grain", " reset grain ", "yes", "YES", "y", "Y",
     "no", ""}

\* C14: the reset command performs ResetWeekData only when the confirmation
\* typed is the phrase "reset grain"; on every other line, "yes" and "y"
\* included, the reset is cancelled and the state is unchanged.
C14_ResetNeedsPhrase ==
    \A input \in ConfirmInputs :
        input # "reset grain" =>
            /\ ~ResetCmd(State, input, now).saved
            /\ ResetCmd(State, input, now).state = State

\* C17: two backups taken at moments that differ in year, month, day, hour,
\* minute or second get different file names, and the later one does not
\* overwrite the earlier one.
C17_BackupsKeptApart ==
    (probe.stage = "two" /\ probe.err = "") =>
        /\ BackupFileName(probe.first) # BackupFileName(probe.second)
        /\ BackupFileName(probe.first) \in DOMAIN probe.dir
        /\ probe.dir[BackupFileName(probe.first)] = "first"

\* Every bucket is dated before the Monday of the week of tnow: the current
\* week has no entries, earlier weeks have whatever they have.
OnlyEarlierWeeks(logs, tnow) ==
    \A i \in 1..Len(logs) : BucketDay(logs[i]) < MondayOf(tnow)

\* C15: when the current week has no entries, CurrentWeekStats returns
\* (0, 0, BreakStart), whatever entries, breaks used and stored surplus the
\* earlier weeks have.
C15_WeekStartsFresh ==
    OnlyEarlierWeeks(Logs, now) =>
        CalculateCurrentWeekStats(State, now).ret = <<0, 0, Config.BreakStart>>

\* CurrentWeekStats has just run in a week without entries, after a week
\* with a stored surplus and a break.
C15_FreshWeekSeen ==
    /\ last.op = "CalculateCurrentWeekStats"
    /\ OnlyEarlierWeeks(Logs, now)
    /\ \E k \in DOMAIN WeeklySurplus : WeeklySurplus[k] > 0
    /\ \E i \in 1..Len(Logs) : SumAmounts(Logs[i].Logs, LogTypeBreak) > 0

\* Values the WeekSurplusMap may hold for the current week in a data file.
StoredValues == {-2, 0, 1, 2}

\* The state with v stored for the week of tnow.
WithStored(state, tnow, v) ==
    [state EXCEPT !.WeeklySurplus = MapPut(@, GetWeekID(tnow), v)]

\* max(0, BreakStart + s - breaksUsed), a negative s counting as 0.
ExpectedAvailable(breakStart, s, breaksUsed) ==
    IF breakStart + (IF s < 0 THEN 0 ELSE s) - breaksUsed < 0 THEN 0
    ELSE breakStart + (IF s < 0 THEN 0 ELSE s) - breaksUsed

MatchCount(dayLogs, log) ==
    Cardinality({i \in 1..Len(dayLogs) : LogMatches(dayLogs[i], log)})

\* The number of records of stack for the date and the entry of item.
RecordCount(stack, item) ==
    Cardinality({i \in 1..Len(stack) :
                    /\ stack[i].DayDate = item.DayDate
                    /\ LogMatches(stack[i].Log, item.Log)})

\* C18: in every state reachable by AddLog, UndoLastAction and
\* ResetWeekData, every record on the UndoStack has a bucket at its date
\* with a matching entry, counted with multiplicity, and UndoLastAction does
\* not fail with an internal-consistency error.
C18_UndoRecordsBacked ==
    /\ \A i \in 1..Len(UndoStack) :
          /\ GetDayLogs(Logs, UndoStack[i].DayDate) # 0
          /\ MatchCount(Logs[GetDayLogs(Logs, UndoStack[i].DayDate)].Logs,
                        UndoStack[i].Log)
                >= RecordCount(UndoStack, UndoStack[i])
    /\ UndoLastAction(State, now).err \notin {ErrNoDay, ErrNoEntry}

\* Two records for equal entries are on the UndoStack.
C18_DuplicateRecordsSeen ==
    /\ last = [op |-> "AddLog", err |-> ""]
    /\ Len(UndoStack) = 2
    /\ RecordCount(UndoStack, UndoStack[1]) = 2

\* The buckets a sum over the week within bounds counts.
Counted(logs, bounds) ==
    {i \in 1..Len(logs) :
        /\ InWeek(ParseDate(logs[i].Date), bounds.start, bounds.end)
        /\ Weekday(ParseDate(logs[i].Date)) # Sunday}

\* C19: RecalculateWeeklyStats(state, WeekIdentifier(now)) sums the study
\* credits of the same buckets as CurrentWeekStats and stores the value
\* CurrentWeekStats computes as surplus, so that a CurrentWeekStats call
\* right after it leaves the WeekSurplusMap unchanged.
C19_RecalculateAgrees ==
    LET weekID == GetWeekID(now)
        after  == RecalculateWeeklyStats(State, weekID)
        stats  == CalculateCurrentWeekStats(State, now)
    IN  /\ Counted(Logs, GetWeekBounds(WeekIDToTime(weekID)))
              = Counted(Logs, GetWeekBounds(now))
        /\ after.WeeklySurplus[weekID]
              = (IF stats.ret[1] > Config.WeeklyGoal
                 THEN (stats.ret[1] - Config.WeeklyGoal) * 2 ELSE 0)
        /\ CalculateCurrentWeekStats(after, now).state.WeeklySurplus
              = after.WeeklySurplus

RECURSIVE TotalFrom(_, _, _)
\* The amounts of one type in the buckets dated Monday through Saturday of
\* the week that begins on the day number monday.
TotalFrom(logs, monday, logType) ==
    IF logs = <<>> THEN 0
    ELSE (IF BucketDay(Head(logs)) \in monday..(monday + 5)
          THEN SumAmounts(Head(logs).Logs, logType)
          ELSE 0)
         + TotalFrom(Tail(logs), monday, logType)

\* UTC offsets of the zone the process runs in.
AnyOffsets == {-5, 0, 5}

\* The moment t on the wall clock of the zone off.
InZone(t, off) == [inst |-> t.inst, off |-> off]

\* C20: at every UTC offset of the process, negative, zero or positive,
\* CurrentWeekStats returns as studyCredits and breaksUsed the sums over the
\* buckets dated Monday through Saturday of the current local week, the
\* Monday bucket included, and over no other bucket.
C20_LocalWeekCounted ==
    \A off \in AnyOffsets :
        /\ CalculateCurrentWeekStats(State, InZone(now, off)).ret[1]
              = TotalFrom(Logs, MondayOf(InZone(now, off)), LogTypeStudy)
        /\ CalculateCurrentWeekStats(State, InZone(now, off)).ret[2]
              = TotalFrom(Logs, MondayOf(InZone(now, off)), LogTypeBreak)

\* Break amounts a caller can pass to AddLog, above BreakStart included.
OverAmounts == AnyAmounts \cup {5}

\* The timestamp lies in the local week of tnow, Monday through Sunday.
InCurrentWeek(timestamp, tnow) ==
    LocalDay(timestamp) \in MondayOf(tnow)..(MondayOf(tnow) + 6)

\* The state after AddLog of a break.
BreakAdded(amount, timestamp) ==
    AddLog(State, LogTypeBreak, amount, timestamp)

\* C21: AddLog of a break with a non-Sunday timestamp of the current week
\* and an amount > 0 above the breaksAvailable CurrentWeekStats returns
\* succeeds, and CurrentWeekStats then returns breaksUsed above BreakStart
\* plus the stored surplus, and breaksAvailable 0.
C21_BreakCapNotEnforced ==
    \A amount \in OverAmounts, timestamp \in AnyStamps(now.off) :
        (/\ Weekday(timestamp) # Sunday
         /\ amount > 0
         /\ InCurrentWeek(timestamp, now)
         /\ amount > CalculateCurrentWeekStats(State, now).ret[3]) =>
            /\ BreakAdded(amount, timestamp).err = ""
            /\ CalculateCurrentWeekStats(BreakAdded(amount, timestamp).state, now).ret[2]
                  > Config.BreakStart
                    + StoredSurplus(BreakAdded(amount, timestamp).state.WeeklySurplus,
                                    GetWeekID(now))
            /\ CalculateCurrentWeekStats(BreakAdded(amount, timestamp).state, now).ret[3]
                  = 0

\* C22: AddLog leaves the Streak as it was, whatever the timestamp, and so
\* do CurrentWeekStats, the goal update and the break command: the Streak
\* changes on UndoLastAction, ResetWeekData and RecalculateOverallStats
\* only.
C22_AddLogKeepsStreak ==
    /\ \A logType \in LogTypes, amount \in AnyAmounts,
          timestamp \in AnyStamps(now.off) :
            AddLog(State, logType, amount, timestamp).state.Streak = Streak
    /\ CalculateCurrentWeekStats(State, now).state.Streak = Streak
    /\ \A newGoal \in GoalArgs : SetGoal(State, newGoal).state.Streak = Streak
    /\ \A amount \in AnyAmounts : BreakCmd(State, amount, now).state.Streak = Streak

\* An AddLog has brought an earlier week to the goal and the Streak does not
\* count that week yet.
C22_StaleStreakSeen ==
    /\ last = [op |-> "AddLog", err |-> ""]
    /\ Streak = 0
    /\ RecalculateOverallStats(State, now).Streak = 1

\* What CalculateCurrentWeekStats at tnow may change of state: the value
\* stored for the week of tnow and BestSurplus, and nothing when the surplus
\* it computes is the value stored (0 when absent).
StatsFrame(state, tnow, after, studyCredits) ==
    /\ after.Logs = state.Logs
    /\ after.UndoStack = state.UndoStack
    /\ after.Streak = state.Streak
    /\ after.Config = state.Config
    /\ DOMAIN after.WeeklySurplus \subseteq
          DOMAIN state.WeeklySurplus \cup {GetWeekID(tnow)}
    /\ \A k \in DOMAIN state.WeeklySurplus \ {GetWeekID(tnow)} :
          k \in DOMAIN after.WeeklySurplus
             /\ after.WeeklySurplus[k] = state.WeeklySurplus[k]
    /\ (LiveSurplus(studyCredits, state.Config.WeeklyGoal)
           = MapGet(state.WeeklySurplus, GetWeekID(tnow))) => after = state

\* C23: CurrentWeekStats changes at most the value stored for the current
\* week and BestSurplus; the store, the UndoStack, the Streak, the Config and
\* every other key stay, and the whole state stays when the surplus computed
\* equals the stored value (absent counted as 0).
C23_StatsFrame ==
    /\ StatsFrame(State, now, CalculateCurrentWeekStats(State, now).state,
                  CalculateCurrentWeekStats(State, now).ret[1])
    /\ \A v \in StoredValues :
          StatsFrame(WithStored(State, now, v), now,
                     CalculateCurrentWeekStats(WithStored(State, now, v), now).state,
                     CalculateCurrentWeekStats(WithStored(State, now, v), now).ret[1])

\* CurrentWeekStats is about to replace the value stored for the current
\* week, next to another week's key, and to raise BestSurplus.
C23_StatsWritesSeen ==
    /\ CalculateCurrentWeekStats(State, now).state.WeeklySurplus # WeeklySurplus
    /\ CalculateCurrentWeekStats(State, now).state.BestSurplus > BestSurplus
    /\ DOMAIN WeeklySurplus \ {GetWeekID(now)} # {}

\* The Days of logs are in strictly ascending order of date, so that no two
\* have the same date.
AscendingDates(logs) ==
    \A i, j \in 1..Len(logs) : i < j => logs[i].Date < logs[j].Date

\* C24: in every state reached from the empty state by AddLog (timestamps in
\* any order), UndoLastAction and ResetWeekData, and after one more such
\* call, the store holds at most one Day per date and its Days are in
\* strictly ascending order of date.
C24_StoreAscending ==
    /\ AscendingDates(Logs)
    /\ \A logType \in LogTypes, amount \in AnyAmounts,
          timestamp \in AnyStamps(now.off) :
            AscendingDates(AddLog(State, logType, amount, timestamp).state.Logs)
    /\ AscendingDates(UndoLastAction(State, now).state.Logs)
    /\ AscendingDates(ResetWeekData(State, now).state.Logs)

\* The store holds two Days, the earlier of them made by the later AddLog.
C24_EarlierDayAddedLater ==
    /\ last = [op |-> "AddLog", err |-> ""]
    /\ Len(Logs) = 2
    /\ Len(UndoStack) = 2
    /\ UndoStack[1].DayDate = Logs[2].Date
    /\ UndoStack[2].DayDate = Logs[1].Date

\* No Day of logs is without entries.
NoEmptyDay(logs) == \A i \in 1..Len(logs) : Len(logs[i].Logs) > 0

\* The Day the top record of the UndoStack names holds one entry.
LastEntryOfDay(state) ==
    /\ Len(state.UndoStack) > 0
    /\ \E i \in 1..Len(state.Logs) :
          /\ state.Logs[i].Date = state.UndoStack[Len(state.UndoStack)].DayDate
          /\ Len(state.Logs[i].Logs) = 1

\* C25: in every state reached from the empty state, and after one more
\* AddLog (successful or failed), UndoLastAction or ResetWeekData, no Day
\* without entries is in the store; undoing the only entry of a Day removes
\* the Day.
C25_NoEmptyDay ==
    /\ NoEmptyDay(Logs)
    /\ \A logType \in LogTypes, amount \in AnyAmounts,
          timestamp \in AnyStamps(now.off) :
            NoEmptyDay(AddLog(State, logType, amount, timestamp).state.Logs)
    /\ NoEmptyDay(UndoLastAction(State, now).state.Logs)
    /\ NoEmptyDay(ResetWeekData(State, now).state.Logs)
    /\ LastEntryOfDay(State) =>
          /\ UndoLastAction(State, now).err = ""
          /\ GetDayLogs(UndoLastAction(State, now).state.Logs,
                        UndoStack[Len(UndoStack)].DayDate) = 0
          /\ Len(UndoLastAction(State, now).state.Logs) = Len(Logs) - 1

\* An undo is about to take the only entry of one Day of two.
C25_LastEntrySeen ==
    /\ LastEntryOfDay(State)
    /\ Len(Logs) = 2

\* The Day is dated in the local week of tnow, Monday through Sunday.
DayInCurrentWeek(day, tnow) ==
    BucketDay(day) \in MondayOf(tnow)..(MondayOf(tnow) + 6)

\* Every key of the map before is a key of the map after.
KeysKept(before, after) == DOMAIN before \subseteq DOMAIN after

\* C26: ResetWeekData leaves every Day dated outside the current week, every
\* WeekSurplusMap key but the current week's, BestSurplus and the Config as
\* they were, and removes no key but the current week's; AddLog,
\* UndoLastAction, CurrentWeekStats, RecalculateOverallStats, the goal update
\* and the break command remove no key.
C26_ResetFrame ==
    /\ \A i \in 1..Len(Logs) :
          ~DayInCurrentWeek(Logs[i], now) =>
              \E j \in 1..Len(ResetWeekData(State, now).state.Logs) :
                  ResetWeekData(State, now).state.Logs[j] = Logs[i]
    /\ \A k \in DOMAIN WeeklySurplus \ {GetWeekID(now)} :
          /\ k \in DOMAIN ResetWeekData(State, now).state.WeeklySurplus
          /\ ResetWeekData(State, now).state.WeeklySurplus[k] = WeeklySurplus[k]
    /\ ResetWeekData(State, now).state.BestSurplus = BestSurplus
    /\ ResetWeekData(State, now).state.Config = Config
    /\ \A logType \in LogTypes, amount \in AnyAmounts,
          timestamp \in AnyStamps(now.off) :
            KeysKept(WeeklySurplus,
                     AddLog(State, logType, amount, timestamp).state.WeeklySurplus)
    /\ KeysKept(WeeklySurplus, UndoLastAction(State, now).state.WeeklySurplus)
    /\ KeysKept(WeeklySurplus,
                CalculateCurrentWeekStats(State, now).state.WeeklySurplus)
    /\ KeysKept(WeeklySurplus, RecalculateOverallStats(State, now).WeeklySurplus)
    /\ \A newGoal \in GoalArgs :
          KeysKept(WeeklySurplus, SetGoal(State, newGoal).state.WeeklySurplus)
    /\ \A amount \in AnyAmounts :
          KeysKept(WeeklySurplus,
                   Persisted(State, BreakCmd(State, amount, now)).WeeklySurplus)

\* A reset is about to run on a store with a Day in the current week and a
\* Day outside it, and a map with the current week's key and another, the
\* BestSurplus above 0.
C26_ResetWithHistorySeen ==
    /\ \E i \in 1..Len(Logs) : DayInCurrentWeek(Logs[i], now)
    /\ \E i \in 1..Len(Logs) : ~DayInCurrentWeek(Logs[i], now)
    /\ GetWeekID(now) \in DOMAIN WeeklySurplus
    /\ DOMAIN WeeklySurplus \ {GetWeekID(now)} # {}
    /\ BestSurplus > 0

\* C27: in every state reached from the empty state, BestSurplus is not
\* negative and is at least every value stored in the WeekSurplusMap.
C27_BestSurplusBounds ==
    /\ BestSurplus >= 0
    /\ \A k \in DOMAIN WeeklySurplus : WeeklySurplus[k] <= BestSurplus

\* A positive surplus is stored, next to another week's key.
C27_SurplusStoredSeen ==
    /\ \E k \in DOMAIN WeeklySurplus : WeeklySurplus[k] > 0
    /\ \E k, j \in DOMAIN WeeklySurplus : k # j

\* C28: no engine operation lowers BestSurplus: not AddLog, not
\* UndoLastAction, the undo of the entry that raised it included, not
\* ResetWeekData, the reset of the week that set it included, not
\* CurrentWeekStats, not RecalculateOverallStats.
C28_BestSurplusKept ==
    /\ \A logType \in LogTypes, amount \in AnyAmounts,
          timestamp \in AnyStamps(now.off) :
            AddLog(State, logType, amount, timestamp).state.BestSurplus
                >= BestSurplus
    /\ UndoLastAction(State, now).state.BestSurplus >= BestSurplus
    /\ ResetWeekData(State, now).state.BestSurplus >= BestSurplus
    /\ CalculateCurrentWeekStats(State, now).state.BestSurplus >= BestSurplus
    /\ RecalculateOverallStats(State, now).BestSurplus >= BestSurplus

\* An undo has emptied the store and BestSurplus is above the surplus of
\* every week in it.
C28_BestAboveStoreSeen ==
    /\ last = [op |-> "UndoLastAction", err |-> ""]
    /\ Logs = <<>>
    /\ BestSurplus > 0

\* The hours from five years before tnow to tnow.
FiveYears(tnow) == tnow.inst - AddYears(tnow, -5).inst

\* C29: the loop of RecalculateOverallStats ends on every store: the weeks
\* its passes have walked back fit in the five years before the clock, and a
\* further pass is begun only if that week fits as well.  On an empty store
\* it ends in its first pass with Streak = 0; on any store the weeks the
\* Streak counts fit in those five years, so that the Streak never exceeds
\* the number of weeks in 5 years; and on the shorter stores the Streak is
\* the one RecalculateOverallStats gives in one call.
C29_StreakWalkEnds ==
    /\ probe.passes * 7 * HoursPerDay <= FiveYears(now)
    /\ probe.stage = "loop" =>
          (probe.passes + 1) * 7 * HoursPerDay <= FiveYears(now)
    /\ probe.stage = "done" =>
          /\ Streak = probe.currentStreak
          /\ Streak * 7 * HoursPerDay <= FiveYears(now)
          /\ Streak <= 261
          /\ Logs = <<>> => (Streak = 0 /\ probe.passes = 1)
          /\ Len(Logs) <= ShortStore =>
                Streak = RecalculateOverallStats(State, now).Streak

\* The loop has ended on a store with more than five years of weeks that
\* all meet the goal, the Streak at the whole weeks of five years.
C29_FiveYearStopSeen ==
    /\ probe.stage = "done"
    /\ Len(Logs) = LongStore
    /\ (Streak + 1) * 7 * HoursPerDay > FiveYears(now)

\* Timestamps on the date of a day number: its first hour five hours east
\* of UTC, its noon in UTC and its last hour five hours west.
StampsOn(day) ==
    {[inst |-> day * HoursPerDay + 0 - 5, off |-> 5],
     [inst |-> day * HoursPerDay + 12, off |-> 0],
     [inst |-> day * HoursPerDay + 23 + 5, off |-> -5]}

\* GetWeekBounds(t) is a week around t: from the midnight that begins a
\* Monday to the midnight that begins the Sunday six days later, t's date
\* within.
WeekAround(t, bounds) ==
    /\ Weekday(bounds.start) = Monday
    /\ Weekday(bounds.end) = Sunday
    /\ LocalHour(bounds.start) = 0
    /\ LocalHour(bounds.end) = 0
    /\ LocalDay(bounds.end) = LocalDay(bounds.start) + 6
    /\ LocalDay(t) \in LocalDay(bounds.start)..LocalDay(bounds.end)

\* GetWeekID gives weekID on the seven dates of the bounds and another
\* identifier on the date before them and on the date after them.
OneIDWithin(bounds, weekID) ==
    /\ \A d \in 0..6 : GetWeekID(AddDays(bounds.start, d)) = weekID
    /\ GetWeekID(AddDays(bounds.start, -1)) # weekID
    /\ GetWeekID(AddDays(bounds.end, 1)) # weekID

\* C30: for every timestamp t on a date from 2000-01-01 through 2099-12-31,
\* GetWeekBounds(t) starts on a Monday, ends on the Sunday six days later
\* and holds t's date, and GetWeekID gives t's identifier on all seven dates
\* of the bounds and not on the date before the start nor on the date after
\* the end.
C30_WeekBoundsAndID ==
    probe.stage = "date" =>
        \A t \in StampsOn(probe.date) :
            /\ WeekAround(t, GetWeekBounds(t))
            /\ OneIDWithin(GetWeekBounds(t), GetWeekID(t))

\* GetWeekID has given Friday 2021-01-01 the identifier of the week that
\* began on Monday 2020-12-28.
C30_YearEndWeekSeen ==
    /\ probe.stage = "id"
    /\ probe.date = DaysFromCivil(2021, 1, 1)
    /\ probe.id = 202053
    /\ LocalDay(GetWeekBounds(Noon(probe.date)).start) = DaysFromCivil(2020, 12, 28)

\* C31: once an invocation has loaded the Config, from the first run's
\* prompts or from a file of any integers, and after any goal commands,
\* WeeklyGoal > 0 and BreakStart >= 0; a goal command whose argument is not
\* a number or is not positive is rejected and leaves the Config as it was.
C31_ConfigInRange ==
    probe.stage = "loaded" =>
        /\ Config.WeeklyGoal > 0
        /\ Config.BreakStart >= 0
        /\ \A arg \in Lines :
              (Atoi(arg).err \/ Atoi(arg).val <= 0) =>
                  /\ GoalCmd(State, arg).err = ErrInvalidGoal
                  /\ GoalCmd(State, arg).state.Config = Config

\* A goal command has been rejected after a load from a file that held a
\* goal of 0 and a negative BreakStart.
C31_DefaultsAndRejectionSeen ==
    /\ probe.stage = "loaded"
    /\ probe.file = ConfigFile(TRUE, 0, -1)
    /\ last = [op |-> "goalCmd", err |-> ErrInvalidGoal]
    /\ Config = [WeeklyGoal |-> defaultWeeklyGoal, BreakStart |-> defaultBreakStart]

\* Every entry of logs has an amount above 0, the kind study or break and a
\* timestamp on the date of its Day, and no Day is dated on a Sunday.
WellFormedStore(logs) ==
    \A i \in 1..Len(logs) :
        /\ Weekday(ParseDate(logs[i].Date)) # Sunday
        /\ \A j \in 1..Len(logs[i].Logs) :
              /\ logs[i].Logs[j].Amount > 0
              /\ logs[i].Logs[j].Type \in LogTypes
              /\ FormatDate(logs[i].Logs[j].Timestamp) = logs[i].Date

\* C32: in every state reached from the empty state by engine operations,
\* and after one more AddLog, UndoLastAction or ResetWeekData, every entry
\* has an amount > 0 and the kind study or break, no Day is dated on a
\* Sunday, and every entry's timestamp falls on the date of its Day.
C32_StoreWellFormed ==
    /\ WellFormedStore(Logs)
    /\ \A logType \in LogTypes, amount \in AnyAmounts,
          timestamp \in AnyStamps(now.off) :
            WellFormedStore(AddLog(State, logType, amount, timestamp).state.Logs)
    /\ WellFormedStore(UndoLastAction(State, now).state.Logs)
    /\ WellFormedStore(ResetWeekData(State, now).state.Logs)

\* The store holds a study entry and a break entry on different Days, west
\* of UTC.
C32_BothKindsSeen ==
    /\ now.off < 0
    /\ Len(Logs) = 2
    /\ \E i, k \in 1..Len(Logs) :
          /\ Logs[i].Logs[1].Type = LogTypeStudy
          /\ Logs[k].Logs[1].Type = LogTypeBreak

\* The state after a goal update to newGoal.
GoalSet(newGoal) == SetGoal(State, newGoal).state

\* C33: after a goal update that changes WeeklyGoal, the next
\* CurrentWeekStats call returns breaksAvailable = max(0, BreakStart +
\* surplus - breaksUsed) with the surplus of the week's study credits under
\* the new goal, and the break command lets a break through only if its
\* amount is at most that.
C33_NewGoalApplies ==
    \A newGoal \in Goals :
        newGoal # Config.WeeklyGoal =>
            /\ CalculateCurrentWeekStats(GoalSet(newGoal), now).ret[3]
                  = ExpectedAvailable(
                        Config.BreakStart,
                        LiveSurplus(
                            CalculateCurrentWeekStats(GoalSet(newGoal), now).ret[1],
                            newGoal),
                        CalculateCurrentWeekStats(GoalSet(newGoal), now).ret[2])
            /\ \A amount \in BreakArgs :
                  BreakCmd(GoalSet(newGoal), amount, now).err = "" =>
                      amount <= ExpectedAvailable(
                          Config.BreakStart,
                          LiveSurplus(
                              CalculateCurrentWeekStats(GoalSet(newGoal), now).ret[1],
                              newGoal),
                          CalculateCurrentWeekStats(GoalSet(newGoal), now).ret[2])

(***************************************************************************)
(* The study, break, undo and reset commands within one week, the Config   *)
(* fixed.                                                                  *)
(***************************************************************************)
\* A command after the engine call returned r: SaveState when it succeeded.
CommandDone(r) == Outcome(r.state, r.err, r.err = "")

\* studyCmd with an argument that strconv.Atoi reads as amount.
StudyCmd(state, amount, tnow) ==
    IF amount <= 0 THEN Outcome(state, ErrInvalidAmount, FALSE)
    ELSE CommandDone(AddLog(state, LogTypeStudy, amount, tnow))

\* undoCmd
UndoCmd(state, tnow) == CommandDone(UndoLastAction(state, tnow))

\* The moments of the week 2019-W51 commands run at: Monday, Tuesday and
\* Saturday.
WeekStamps(off) ==
    {Date(2019, 12, 16, 9, off), Date(2019, 12, 17, 12, off),
     Date(2019, 12, 21, 18, off)}

\* The variables after a command that ended as outcome.
Commanded(op, outcome) ==
    Becomes(op, Result(Persisted(State, outcome), outcome.err, <<>>))

CmdInit ==
    /\ \E off \in Offsets : now = Date(2019, 12, 16, 9, off)
    /\ \E g \in Goals, b \in BreakStarts :
          Config = [WeeklyGoal |-> g, BreakStart |-> b]
    /\ Logs = <<>>
    /\ WeeklySurplus = EmptyMap
    /\ Streak = 0
    /\ BestSurplus = 0
    /\ UndoStack = <<>>
    /\ last = [op |-> "LoadState", err |-> ""]
    /\ probe = NoProbe

DoStudyCmd ==
    \E amount \in Amounts :
        /\ amount <= 0 \/ TotalEntries(Logs) < MaxLogs
        /\ Commanded("studyCmd", StudyCmd(State, amount, now))

DoUndoCmd == Commanded("undoCmd", UndoCmd(State, now))

DoResetCmd ==
    \E input \in {"reset grain", "no"} :
        Commanded("resetCmd", ResetCmd(State, input, now))

\* Time passes within the week.
WeekTick ==
    /\ \E t \in WeekStamps(now.off) : Before(now, t) /\ now' = t
    /\ UNCHANGED <<Logs, WeeklySurplus, Streak, BestSurplus, UndoStack, Config,
                   last, probe>>

CmdNext ==
    \/ DoStudyCmd
    \/ DoBreakCmd
    \/ DoUndoCmd
    \/ DoResetCmd
    \/ WeekTick

CmdSpec == CmdInit /\ [][CmdNext]_vars

\* C34: under a fixed Config, after any study, break, undo and reset
\* commands within one week, the break credits of the week's Days, Monday
\* through Saturday, are at most BreakStart plus the surplus of the week's
\* study credits.
C34_BreaksWithinCap ==
    TotalFrom(Logs, MondayOf(now), LogTypeBreak)
        <= Config.BreakStart
           + LiveSurplus(TotalFrom(Logs, MondayOf(now), LogTypeStudy),
                         Config.WeeklyGoal)

(***************************************************************************)
(* The commands of one week under goals the week's study credits can meet  *)
(* exactly.                                                                *)
(***************************************************************************)
\* Weekly goals that sums of the logged amounts reach exactly.
MetGoals == {2, 4}

SurplusInit ==
    /\ \E off \in Offsets : now = Date(2019, 12, 16, 9, off)
    /\ \E g \in MetGoals, b \in BreakStarts :
          Config = [WeeklyGoal |-> g, BreakStart |-> b]
    /\ Logs = <<>>
    /\ WeeklySurplus = EmptyMap
    /\ Streak = 0
    /\ BestSurplus = 0
    /\ UndoStack = <<>>
    /\ last = [op |-> "LoadState", err |-> ""]
    /\ probe = NoProbe

SurplusNext ==
    \/ DoStudyCmd
    \/ DoBreakCmd
    \/ DoUndoCmd
    \/ DoCurrentWeekStats
    \/ WeekTick

SurplusSpec == SurplusInit /\ [][SurplusNext]_vars

\* The ranges of studyCredits and WeeklyGoal the two rules are compared on.
MaxCredits == 12
MaxGoal    == 12

\* CalculateCurrentWeekStats with the surplus rule of
\* RecalculateWeeklyStats, and RecalculateWeeklyStats with the rule of
\* CalculateCurrentWeekStats.
StatsBySurplus(state, tnow, surplus) ==
    WeekStats(state, GetWeekID(tnow),
              SumWeek(state.Logs, GetWeekBounds(tnow)),
              surplus,
              StoredSurplus(state.WeeklySurplus, GetWeekID(tnow)))

RecalculatedFrom(state, weekID) ==
    SumWeek(state.Logs, GetWeekBounds(WeekIDToTime(weekID))).studyCredits

\* C35: for every studyCredits >= 0 and WeeklyGoal > 0 the surplus rule of
\* CalculateCurrentWeekStats (>) and the rule of RecalculateWeeklyStats (>=)
\* give the same value; in every reachable state CalculateCurrentWeekStats
\* under either rule leaves the same WeeklySurplus and BestSurplus and
\* returns the same breaksAvailable, and so does RecalculateWeeklyStats for
\* every week on record and the current one.
C35_SameSurplus ==
    /\ \A studyCredits \in 0..MaxCredits, weeklyGoal \in 1..MaxGoal :
          LiveSurplus(studyCredits, weeklyGoal)
              = RecalculatedSurplus(studyCredits, weeklyGoal)
    /\ StatsBySurplus(State, now,
            RecalculatedSurplus(
                SumWeek(Logs, GetWeekBounds(now)).studyCredits,
                Config.WeeklyGoal))
          = CalculateCurrentWeekStats(State, now)
    /\ \A weekID \in DOMAIN WeeklySurplus \cup {GetWeekID(now)} :
          StoreSurplus(State, weekID,
              LiveSurplus(RecalculatedFrom(State, weekID), Config.WeeklyGoal))
            = RecalculateWeeklyStats(State, weekID)

\* A study command has just brought the week's study credits to exactly
\* the weekly goal, and the week's surplus is stored as 0.
C35_GoalJustMetSeen ==
    /\ last = [op |-> "studyCmd", err |-> ""]
    /\ SumWeek(Logs, GetWeekBounds(now)).studyCredits = Config.WeeklyGoal
    /\ RecalculatedFrom(State, GetWeekID(now)) = Config.WeeklyGoal
    /\ GetWeekID(now) \in DOMAIN WeeklySurplus
    /\ WeeklySurplus[GetWeekID(now)] = 0

(***************************************************************************)
(* internal/data: the data file, its backup, and the restore command.      *)
(***************************************************************************)
\* What json.MarshalIndent writes of an AppState: every field but Config,
\* which is tagged json:"-".
Content(state) ==
    [Logs |-> state.Logs, WeeklySurplus |-> state.WeeklySurplus,
     Streak |-> state.Streak, BestSurplus |-> state.BestSurplus,
     UndoStack |-> state.UndoStack]

\* SaveState: the data file after it, a file being whether it exists,
\* whether json.Unmarshal reads its bytes into an AppState, and what they
\* hold.
SaveState(state) ==
    [exists |-> TRUE, valid |-> TRUE, content |-> Content(state)]

\* A path with no file at it.
Missing ==
    [exists |-> FALSE, valid |-> FALSE,
     content |-> Content(FreshState([WeeklyGoal |-> 0, BreakStart |-> 0]))]

\* A file cut short: bytes that are no JSON value.
Damaged(file) == [file EXCEPT !.valid = FALSE]

ErrNoBackup    == "backup file does not exist"
ErrNotJSON     == "backup file is not valid JSON"
ErrCannotParse == "could not parse data file"
ErrBackupName  == "invalid backup file name"

\* LoadState: the fresh state when there is no data file, else the state
\* unmarshalled from it with cfg attached.
LoadState(file, cfg) ==
    IF ~file.exists THEN Result(FreshState(cfg), "", <<>>)
    ELSE IF ~file.valid THEN Result(FreshState(cfg), ErrCannotParse, <<>>)
    ELSE Result([Logs |-> file.content.Logs,
                 WeeklySurplus |-> file.content.WeeklySurplus,
                 Streak |-> file.content.Streak,
                 BestSurplus |-> file.content.BestSurplus,
                 UndoStack |-> file.content.UndoStack,
                 Config |-> cfg], "", <<>>)

\* RestoreData writing the backup's bytes to the data file before it
\* validates them.
RestoreDataUnvalidated(dataFile, backup) ==
    IF ~backup.exists
    THEN [data |-> dataFile, err |-> ErrNoBackup, wrote |-> FALSE]
    ELSE IF ~backup.valid
    THEN [data |-> backup, err |-> ErrNotJSON, wrote |-> TRUE]
    ELSE [data |-> backup, err |-> "", wrote |-> TRUE]

\* RestoreData: the data file afterwards, the error, and whether
\* os.WriteFile was reached.
RestoreData(dataFile, backup) ==
    IF ~backup.exists
    THEN [data |-> dataFile, err |-> ErrNoBackup, wrote |-> FALSE]
    ELSE IF ~backup.valid
    THEN [data |-> dataFile, err |-> ErrNotJSON, wrote |-> FALSE]
    ELSE [data |-> backup, err |-> "", wrote |-> TRUE]

\* The end of a restore command: the AppState, the data file, the error,
\* and whether loadConfigAndState and SaveState were reached after
\* RestoreData.
Restored(state, dataFile, err, reloaded, saved) ==
    [state |-> state, data |-> dataFile, err |-> err,
     reloaded |-> reloaded, saved |-> saved]

\* restoreCmd after RestoreData succeeded: loadConfigAndState, which ends
\* with RecalculateOverallStats, then SaveState.
Reloaded(state) == Restored(state, SaveState(state), "", TRUE, TRUE)

\* restoreCmd from the confirmation on, r being the result of RestoreData.
RestoreConfirmed(state, r, tnow) ==
    IF r.err # "" THEN Restored(state, r.data, r.err, FALSE, FALSE)
    ELSE IF LoadState(r.data, state.Config).err # ""
    THEN Restored(state, r.data, LoadState(r.data, state.Config).err,
                  TRUE, FALSE)
    ELSE Reloaded(RecalculateOverallStats(
                      LoadState(r.data, state.Config).state, tnow))

\* restoreCmd on a file name, given by its path elements, and the line the
\* user types; the data file holds the state the invocation loaded.
RestoreCmd(state, backup, name, input, tnow) ==
    IF Len(name) # 1
    THEN Restored(state, SaveState(state), ErrBackupName, FALSE, FALSE)
    ELSE IF ~PromptConfirmation(input)
    THEN Restored(state, SaveState(state), "", FALSE, FALSE)
    ELSE RestoreConfirmed(state, RestoreData(SaveState(state), backup), tnow)

\* The names and lines given to the restore command.
BackupNames   == {<<"backup.json">>, <<"..", "backup.json">>}
RestoreInputs == {"yes", "y", "no"}

RestoreInit ==
    /\ \E off \in Offsets : now = Date(2019, 12, 16, 9, off)
    /\ \E g \in Goals, b \in BreakStarts :
          Config = [WeeklyGoal |-> g, BreakStart |-> b]
    /\ Logs = <<>>
    /\ WeeklySurplus = EmptyMap
    /\ Streak = 0
    /\ BestSurplus = 0
    /\ UndoStack = <<>>
    /\ last = [op |-> "LoadState", err |-> ""]
    /\ probe = [backup |-> Missing, err |-> "", reloaded |-> FALSE,
                saved |-> FALSE, before |-> Missing]

\* backupCmd: the backup holds the bytes of the data file.
DoBackupCmd ==
    /\ probe' = [probe EXCEPT !.backup = SaveState(State)]
    /\ last' = [op |-> "backupCmd", err |-> ""]
    /\ UNCHANGED <<Logs, WeeklySurplus, Streak, BestSurplus, UndoStack, Config,
                   now>>

\* The backup is cut short or removed outside the program.
DoDamageBackup ==
    /\ probe.backup.exists
    /\ \E file \in {Damaged(probe.backup), Missing} :
          /\ file # probe.backup
          /\ probe' = [probe EXCEPT !.backup = file]
    /\ UNCHANGED <<Logs, WeeklySurplus, Streak, BestSurplus, UndoStack, Config,
                   now, last>>

\* The variables after a restore command that ended as outcome.
RestoreEnds(outcome) ==
    /\ Logs' = outcome.state.Logs
    /\ WeeklySurplus' = outcome.state.WeeklySurplus
    /\ Streak' = outcome.state.Streak
    /\ BestSurplus' = outcome.state.BestSurplus
    /\ UndoStack' = outcome.state.UndoStack
    /\ Config' = outcome.state.Config
    /\ last' = [op |-> "restoreCmd", err |-> outcome.err]
    /\ probe' = [probe EXCEPT
                    !.err = outcome.err, !.reloaded = outcome.reloaded,
                    !.saved = outcome.saved, !.before = SaveState(State)]
    /\ UNCHANGED now

DoRestoreCmd ==
    \E name \in BackupNames, input \in RestoreInputs :
        RestoreEnds(RestoreCmd(State, probe.backup, name, input, now))

RestoreNext ==
    \/ DoStudyCmd
    \/ DoUndoCmd
    \/ DoBackupCmd
    \/ DoDamageBackup
    \/ DoRestoreCmd
    \/ WeekTick

RestoreSpec == RestoreInit /\ [][RestoreNext]_vars

\* The backup files a restore may meet: the one on disk, the same cut
\* short, and none.
AnyBackups == {probe.backup, Damaged(probe.backup), Missing}

\* C36: RestoreData writes the data file only when the backup exists and
\* unmarshals into an AppState; on a backup that is missing or not valid
\* JSON it returns an error and the data file holds what it held, and the
\* restore command then reaches neither loadConfigAndState nor SaveState and
\* leaves the state as it was.
C36_RestoreGuarded ==
    /\ \A backup \in AnyBackups :
          /\ RestoreData(SaveState(State), backup).wrote
                => backup.exists /\ backup.valid
          /\ RestoreData(SaveState(State), backup).data # SaveState(State)
                => backup.exists /\ backup.valid
          /\ ~backup.exists \/ ~backup.valid =>
                /\ RestoreData(SaveState(State), backup).err # ""
                /\ RestoreData(SaveState(State), backup).data = SaveState(State)
                /\ \A name \in BackupNames, input \in RestoreInputs :
                      /\ ~RestoreCmd(State, backup, name, input, now).reloaded
                      /\ ~RestoreCmd(State, backup, name, input, now).saved
                      /\ RestoreCmd(State, backup, name, input, now).data
                            = SaveState(State)
                      /\ RestoreCmd(State, backup, name, input, now).state
                            = State
    /\ last.op = "restoreCmd" /\ last.err \in {ErrNoBackup, ErrNotJSON} =>
          /\ ~probe.reloaded
          /\ ~probe.saved
          /\ SaveState(State) = probe.before

\* A confirmed restore has just been refused on a backup that is not valid
\* JSON, the data file holding logs the backup does not.
C36_DamagedBackupRefused ==
    /\ last = [op |-> "restoreCmd", err |-> ErrNotJSON]
    /\ probe.backup.exists
    /\ ~probe.backup.valid
    /\ Logs # <<>>
    /\ probe.backup.content # Content(State)

====
